---------------------------- MODULE Spec2Model ----------------------------
(***************************************************************************)
(* A model of the compression codec core of                                *)
(* adilg123/file-compression-decompression-tool: the dispatcher            *)
(* (Compress / Decompress / processData), the huffman, lzss, flate and     *)
(* gzip readers and writers, and the pure coding functions they call.      *)
(*                                                                         *)
(* Byte strings and rune strings are sequences of integers.  Go slices are *)
(* 0-based; the helpers Slice and At keep the source's indices.            *)
(***************************************************************************)
EXTENDS Integers, Sequences, FiniteSets, TLC

(***************************************************************************)
(* Generic helpers (Go built-ins and slice expressions).                   *)
(***************************************************************************)
Min2(a, b) == IF a < b THEN a ELSE b

Max2(a, b) == IF a > b THEN a ELSE b

RECURSIVE Pow2(_)
Pow2(n) == IF n <= 0 THEN 1 ELSE 2 * Pow2(n - 1)

\* s[i:j] and s[i] with Go's 0-based indices
Slice(s, i, j) == SubSeq(s, i + 1, j)

At(s, i) == s[i + 1]

RemoveAt(s, i) == SubSeq(s, 1, i - 1) \o SubSeq(s, i + 1, Len(s))

RECURSIVE ReverseSeq(_)
ReverseSeq(s) == IF s = <<>> THEN <<>> ELSE Append(ReverseSeq(Tail(s)), Head(s))

Repeat(s, n) == [k \in 1..(Max2(n, 0) * Len(s)) |-> s[((k - 1) % Len(s)) + 1]]

RECURSIVE SortedSeq(_)
SortedSeq(S) ==
  IF S = {} THEN <<>>
  ELSE LET m == CHOOSE x \in S : \A y \in S : x <= y
       IN <<m>> \o SortedSeq(S \ {m})

RECURSIVE PermSeqs(_)
PermSeqs(S) ==
  IF S = {} THEN {<<>>}
  ELSE UNION {{<<x>> \o p : p \in PermSeqs(S \ {x})} : x \in S}

RECURSIVE SeqsUpTo(_, _)
SeqsUpTo(S, n) ==
  IF n = 0 THEN {<<>>}
  ELSE LET shorter == SeqsUpTo(S, n - 1)
       IN shorter \cup {Append(s, x) : s \in {t \in shorter : Len(t) = n - 1}, x \in S}

\* first 0-based index at which sep occurs in s, or -1 (strings.Index)
RECURSIVE IndexFrom(_, _, _)
IndexFrom(s, sep, i) ==
  IF i + Len(sep) > Len(s) THEN -1
  ELSE IF Slice(s, i, i + Len(sep)) = sep THEN i
  ELSE IndexFrom(s, sep, i + 1)

(***************************************************************************)
(* string(bytes) ranged over as runes, and string(rune) as bytes: UTF-8.   *)
(* One- and two-byte sequences are decoded; any other byte is an invalid   *)
(* encoding and yields U+FFFD with width 1 (the model's inputs hold no     *)
(* lead byte of a three- or four-byte sequence).                           *)
(***************************************************************************)
IsCont(b) == b >= 128 /\ b <= 191

\* the second byte a first byte b accepts (the accept ranges of unicode/utf8)
Accepts(b, c) ==
  IF b = 224 THEN c >= 160 /\ c <= 191
  ELSE IF b = 237 THEN c >= 128 /\ c <= 159
  ELSE IF b = 240 THEN c >= 144 /\ c <= 191
  ELSE IF b = 244 THEN c >= 128 /\ c <= 143
  ELSE IsCont(c)

RECURSIVE Runes(_)
Runes(bytes) ==
  IF bytes = <<>> THEN <<>>
  ELSE LET b == Head(bytes)
       IN IF b < 128 THEN <<b>> \o Runes(Tail(bytes))
          ELSE IF b >= 194 /\ b <= 223 /\ Len(bytes) >= 2 /\ IsCont(bytes[2])
          THEN <<(b - 192) * 64 + (bytes[2] - 128)>> \o Runes(SubSeq(bytes, 3, Len(bytes)))
          ELSE IF b >= 224 /\ b <= 239 /\ Len(bytes) >= 3 /\ Accepts(b, bytes[2])
                  /\ IsCont(bytes[3])
          THEN <<(b - 224) * 4096 + (bytes[2] - 128) * 64 + (bytes[3] - 128)>>
               \o Runes(SubSeq(bytes, 4, Len(bytes)))
          ELSE IF b >= 240 /\ b <= 244 /\ Len(bytes) >= 4 /\ Accepts(b, bytes[2])
                  /\ IsCont(bytes[3]) /\ IsCont(bytes[4])
          THEN <<(b - 240) * 262144 + (bytes[2] - 128) * 4096 + (bytes[3] - 128) * 64
                  + (bytes[4] - 128)>>
               \o Runes(SubSeq(bytes, 5, Len(bytes)))
          ELSE <<65533>> \o Runes(Tail(bytes))

Utf8(r) ==
  IF r < 128 THEN <<r>>
  ELSE IF r < 2048 THEN <<192 + (r \div 64), 128 + (r % 64)>>
  ELSE IF r < 65536
  THEN <<224 + (r \div 4096), 128 + ((r \div 64) % 64), 128 + (r % 64)>>
  ELSE <<240 + (r \div 262144), 128 + ((r \div 4096) % 64), 128 + ((r \div 64) % 64),
         128 + (r % 64)>>

RECURSIVE Utf8Seq(_)
Utf8Seq(runes) ==
  IF runes = <<>> THEN <<>> ELSE Utf8(Head(runes)) \o Utf8Seq(Tail(runes))

(***************************************************************************)
(* strconv.Itoa / strconv.Atoi on the non-negative numbers the codecs      *)
(* format; Atoi yields -1 where the source gets an error.                  *)
(***************************************************************************)
IsDigit(r) == r >= 48 /\ r <= 57

RECURSIVE Itoa(_)
Itoa(n) == IF n < 10 THEN <<48 + n>> ELSE Append(Itoa(n \div 10), 48 + (n % 10))

RECURSIVE AtoiDigits(_, _)
AtoiDigits(s, acc) ==
  IF s = <<>> THEN acc ELSE AtoiDigits(Tail(s), acc * 10 + (Head(s) - 48))

Atoi(s) ==
  IF s = <<>> \/ \E i \in 1..Len(s) : ~IsDigit(s[i]) THEN -1 ELSE AtoiDigits(s, 0)

(***************************************************************************)
(* Outcomes of a function that may return an error or panic.               *)
(***************************************************************************)
Ok(v) == [st |-> "ok", val |-> v]

Err(m) == [st |-> "err", val |-> m]

Panic(m) == [st |-> "panic", val |-> m]

(***************************************************************************)
(* huffman/utils.go: the frequency tree.                                   *)
(***************************************************************************)
\* huffmanHeap.Less
Less(x, y) == IF x.freq # y.freq THEN x.freq < y.freq ELSE x.id < y.id

\* heap.Pop of a heap ordered by Less: the index of the least item
heapPop(hub) ==
  CHOOSE i \in 1..Len(hub) : \A j \in 1..Len(hub) : j = i \/ Less(hub[i], hub[j])

RECURSIVE mergeLoop(_, _)
mergeLoop(hub, monoId) ==
  IF Len(hub) <= 1 THEN hub
  ELSE LET i == heapPop(hub)
           x == hub[i]
           rest == RemoveAt(hub, i)
           j == heapPop(rest)
           y == rest[j]
       IN mergeLoop(Append(RemoveAt(rest, j),
                           [kind |-> "node", freq |-> x.freq + y.freq, id |-> monoId,
                            left |-> x, right |-> y]),
                    monoId + 1)

\* buildTree: symbolFreq is a function from runes to frequencies.  The final
\* heap.Pop of an empty heap (an empty map) indexes hub[-1] and panics.
buildTree(symbolFreq) ==
  LET keys == SortedSeq(DOMAIN symbolFreq)
      treehub == [k \in 1..Len(keys) |->
                    [kind |-> "leaf", freq |-> symbolFreq[keys[k]],
                     symbol |-> keys[k], id |-> k - 1]]
      merged == mergeLoop(treehub, Len(keys))
  IN IF Len(merged) = 0 THEN [kind |-> "panic"] ELSE merged[1]

(***************************************************************************)
(* huffman/compression.go: compress, getSymbolEncoding, asByteSlice,       *)
(* encode.  A bitString is a sequence of 0/1.                              *)
(***************************************************************************)
RECURSIVE getSymbolEncoding(_, _)
getSymbolEncoding(tree, currentPrefix) ==
  IF tree.kind = "leaf" THEN {<<tree.symbol, currentPrefix>>}
  ELSE getSymbolEncoding(tree.left, Append(currentPrefix, 0))
         \cup getSymbolEncoding(tree.right, Append(currentPrefix, 1))

RECURSIVE ParseBits(_, _)
ParseBits(chunk, acc) ==
  IF chunk = <<>> THEN acc ELSE ParseBits(Tail(chunk), 2 * acc + Head(chunk))

\* strconv.FormatInt(n, 2)
RECURSIVE FormatBits(_)
FormatBits(n) == IF n < 2 THEN <<n>> ELSE Append(FormatBits(n \div 2), n % 2)

RECURSIVE asByteSliceLoop(_, _)
asByteSliceLoop(b, i) ==
  IF i <= 0 THEN <<>>
  ELSE LET chunk == IF i < 8 THEN Slice(b, 0, i) ELSE Slice(b, i - 8, i)
       IN <<ParseBits(chunk, 0)>> \o asByteSliceLoop(b, i - 8)

asByteSlice(b) == ReverseSeq(asByteSliceLoop(b, Len(b)))

RECURSIVE encodeSymbols(_, _)
encodeSymbols(symbolEnc, input) ==
  IF input = <<>> THEN <<>>
  ELSE LET code == CHOOSE p \in symbolEnc : p[1] = Head(input)
       IN code[2] \o encodeSymbols(symbolEnc, Tail(input))

encode(tree, input, compressionHeader) ==
  LET symbolEnc == getSymbolEncoding(tree, <<>>)
      output == encodeSymbols(symbolEnc, input)
      paddingByte == asByteSlice(FormatBits((8 - (Len(output) % 8)) % 8))
      inputBytes == asByteSlice(output)
  IN compressionHeader \o <<92, 10>> \o paddingByte \o inputBytes

SymbolFreqOf(runes) ==
  [r \in {runes[i] : i \in 1..Len(runes)} |->
     Cardinality({i \in 1..Len(runes) : runes[i] = r})]

\* the header loop of compress, for one order of Go's map iteration
RECURSIVE headerFor(_, _)
headerFor(symbolFreq, order) ==
  IF order = <<>> THEN <<>>
  ELSE LET key == Head(order)
           pair == IF key = 10 THEN Itoa(symbolFreq[key]) \o <<124, 92, 110>>
                   ELSE Itoa(symbolFreq[key]) \o <<124>> \o Utf8(key)
       IN pair \o headerFor(symbolFreq, Tail(order))

\* compress(content) when `range symbolFreq` visits the keys in `order`
huffmanCompress(content, order) ==
  LET contentString == Runes(content)
      symbolFreq == SymbolFreqOf(contentString)
      tree == buildTree(symbolFreq)
  IN IF tree.kind = "panic" THEN Panic("index out of range")
     ELSE Ok(encode(tree, contentString, headerFor(symbolFreq, order)))

\* the orders in which `range symbolFreq` may visit the keys
MapOrders(content) == PermSeqs({Runes(content)[i] : i \in 1..Len(Runes(content))})

(***************************************************************************)
(* huffman/decompression.go: decompress, getSymbolDecoded, getSymbol,      *)
(* decode.                                                                 *)
(***************************************************************************)
\* strings.SplitN(s, "\\\n", 2): one part when the separator is absent
SplitN2(s) ==
  LET i == IndexFrom(s, <<92, 10>>, 0)
  IN IF i < 0 THEN <<s>> ELSE <<Slice(s, 0, i), Slice(s, i + 2, Len(s))>>

\* the inner loop that walks startFreq back over the digits of a frequency
RECURSIVE startFreqOf(_, _)
startFreqOf(headerRunes, startFreq) ==
  IF startFreq > 0 /\ IsDigit(At(headerRunes, startFreq - 1))
       /\ (startFreq = 1 \/ At(headerRunes, startFreq - 2) # 124)
  THEN startFreqOf(headerRunes, startFreq - 1)
  ELSE startFreq

\* the header loop of decompress from index i on; acc is symbolFreq so far.
\* Yields Ok(symbolFreq), or Panic at an index out of range or a failed Atoi.
RECURSIVE parseHeader(_, _, _)
parseHeader(headerRunes, i, acc) ==
  IF i >= Len(headerRunes) THEN Ok(acc)
  ELSE IF At(headerRunes, i) # 124 THEN parseHeader(headerRunes, i + 1, acc)
  ELSE IF i = 0 THEN Panic("index out of range [-1]")
  ELSE IF At(headerRunes, i - 1) = 124 THEN parseHeader(headerRunes, i + 1, acc)
  ELSE LET startFreq == startFreqOf(headerRunes, i - 1)
           freq == Atoi(Slice(headerRunes, startFreq, i))
       IN IF freq < 0 THEN Panic("strconv.Atoi: invalid syntax")
          ELSE IF i + 1 >= Len(headerRunes) THEN Panic("index out of range")
          ELSE LET sym == IF At(headerRunes, i + 1) # 92 \/ i + 2 >= Len(headerRunes)
                               \/ At(headerRunes, i + 2) # 110
                          THEN At(headerRunes, i + 1) ELSE 10
               IN parseHeader(headerRunes, i + 1,
                              [r \in DOMAIN acc \cup {sym} |-> IF r = sym THEN freq ELSE acc[r]])

\* fmt.Sprintf("%08b", bait)
RECURSIVE Bits8(_, _)
Bits8(bait, n) == IF n = 0 THEN <<>> ELSE Append(Bits8(bait \div 2, n - 1), bait % 2)

RECURSIVE BitsOfBytes(_)
BitsOfBytes(bytes) ==
  IF bytes = <<>> THEN <<>> ELSE Bits8(Head(bytes), 8) \o BitsOfBytes(Tail(bytes))

\* getSymbol: descends from currentNode; yields <<index, symbol>> at a leaf,
\* <<index, -1>> when the code runs out (the error the caller panics on)
RECURSIVE getSymbol(_, _, _)
getSymbol(currentNode, huffmanCode, index) ==
  IF currentNode.kind = "leaf" THEN <<index, currentNode.symbol>>
  ELSE IF index + 1 >= Len(huffmanCode) THEN <<index + 1, -1>>
  ELSE IF At(huffmanCode, index + 1) = 0
       THEN getSymbol(currentNode.left, huffmanCode, index + 1)
       ELSE getSymbol(currentNode.right, huffmanCode, index + 1)

\* the loop of getSymbolDecoded over a huffmanNode root
RECURSIVE decodeLoop(_, _, _, _)
decodeLoop(node, huffmanCode, index, data) ==
  IF index >= Len(huffmanCode) THEN Ok(data)
  ELSE LET r == getSymbol(IF At(huffmanCode, index) = 0 THEN node.left ELSE node.right,
                          huffmanCode, index)
       IN IF r[2] < 0 THEN Panic("[ getSymbol ] out of index error")
          ELSE decodeLoop(node, huffmanCode, r[1] + 1, data \o Utf8(r[2]))

getSymbolDecoded(root, huffmanCode) ==
  IF root.kind = "leaf" THEN Ok(Utf8(root.symbol))
  ELSE decodeLoop(root, huffmanCode, 0, <<>>)

decode(tree, input) ==
  LET parts == SplitN2(input)
  IN IF Len(parts) < 2 THEN Panic("index out of range [1]")
     ELSE LET contentBytes == parts[2]
              offset == IF contentBytes = <<>> THEN 0 ELSE contentBytes[1]
              bits == IF contentBytes = <<>> THEN <<>> ELSE BitsOfBytes(Tail(contentBytes))
          IN IF offset > Len(bits) THEN Panic("slice bounds out of range")
             ELSE getSymbolDecoded(tree, Slice(bits, offset, Len(bits)))

huffmanDecompress(content) ==
  LET compressionHeader == SplitN2(content)[1]
      parsed == parseHeader(Runes(compressionHeader), 0, <<>>)
  IN IF parsed.st # "ok" THEN parsed
     ELSE LET tree == buildTree(parsed.val)
          IN IF tree.kind = "panic" THEN Panic("index out of range")
             ELSE decode(tree, content)

(***************************************************************************)
(* lzss: the constants of part_002 and the matcher and text framing of     *)
(* lzss/compression.go.                                                    *)
(***************************************************************************)
Opening == 60

Closing == 62

Separator == 44

Escape == 92

conflictingLiterals == {Opening, Closing, Separator, Escape}

\* the inner loop shared by findPrefix and kmp:
\*   for j > 0 && c != pattern[j] { j = pi[j-1] }
RECURSIVE fallBack(_, _, _, _)
fallBack(pattern, pi, c, j) ==
  IF j > 0 /\ c # At(pattern, j) THEN fallBack(pattern, pi, c, At(pi, j - 1)) ELSE j

RECURSIVE findPrefixLoop(_, _, _)
findPrefixLoop(pattern, i, pi) ==
  IF i >= Len(pattern) THEN pi
  ELSE LET j == fallBack(pattern, pi, At(pattern, i), At(pi, i - 1))
       IN findPrefixLoop(pattern, i + 1,
                         Append(pi, IF At(pattern, i) = At(pattern, j) THEN j + 1 ELSE j))

findPrefix(pattern) == IF pattern = <<>> THEN <<>> ELSE findPrefixLoop(pattern, 1, <<0>>)

RECURSIVE kmpLoop(_, _, _, _, _, _, _)
kmpLoop(searchBuffer, pattern, pi, i, k, best, bestIndex) ==
  IF i >= Len(searchBuffer) THEN <<best, bestIndex>>
  ELSE LET b == At(searchBuffer, i)
           k1 == fallBack(pattern, pi, b, k)
           k2 == IF b = At(pattern, k1) THEN k1 + 1 ELSE k1
       IN IF best < k2
          THEN IF k2 = Len(pattern) THEN <<k2, i - k2 + 1>>
               ELSE kmpLoop(searchBuffer, pattern, pi, i + 1, k2, k2, i - k2 + 1)
          ELSE kmpLoop(searchBuffer, pattern, pi, i + 1, k2, best, bestIndex)

\* kmp with a prefix table of zeros: every mismatch starts again at pattern[0]
kmpRestart(searchBuffer, pattern) ==
  kmpLoop(searchBuffer, pattern, [k \in 1..Len(pattern) |-> 0], 0, 0, 0, 0)

\* kmp: <<best, bestIndex>>
kmp(searchBuffer, pattern) ==
  kmpLoop(searchBuffer, pattern, findPrefix(pattern), 0, 0, 0, 0)

\* matchSearchBuffer: the Reference sent on the position's channel
matchSearchBuffer(searchBuffer, scanRunes, nextRunes) ==
  LET pattern == scanRunes \o nextRunes
      m == kmp(searchBuffer, pattern)
  IN IF m[1] > 1
     THEN [IsRef |-> TRUE, Value |-> Slice(pattern, 0, m[1]), Size |-> m[1],
           NegativeOffset |-> Len(searchBuffer) - m[2]]
     ELSE [IsRef |-> FALSE, Value |-> scanRunes, Size |-> Len(scanRunes),
           NegativeOffset |-> 0]

\* FindMatch: the Reference each position's worker sends, in position order
FindMatch(content, matchDistance, matchLength) ==
  [n \in 1..Len(content) |->
     LET i == n - 1
         searchStartIdx == Max2(0, i - matchDistance)
         nextEndIdx == Min2(Len(content), i + matchLength)
     IN matchSearchBuffer(Slice(content, searchStartIdx, i), <<At(content, i)>>,
                          Slice(content, i + 1, nextEndIdx))]

RECURSIVE escapeConflictingSymbols(_)
escapeConflictingSymbols(content) ==
  IF content = <<>> THEN <<>>
  ELSE (IF Head(content) \in conflictingLiterals THEN <<Escape, Head(content)>>
        ELSE <<Head(content)>>) \o escapeConflictingSymbols(Tail(content))

getSymbolEncoded(negOffset, length) ==
  <<Opening>> \o Itoa(negOffset) \o <<Separator>> \o Itoa(length) \o <<Closing>>

\* the consumer loop of compress over the references
RECURSIVE lzssEmit(_, _, _)
lzssEmit(refs, n, nextRunesToIgnore) ==
  IF n > Len(refs) THEN <<>>
  ELSE LET ref == refs[n]
       IN IF nextRunesToIgnore > 0 THEN lzssEmit(refs, n + 1, nextRunesToIgnore - 1)
          ELSE IF ref.IsRef
          THEN LET encoding == getSymbolEncoded(ref.NegativeOffset, ref.Size)
               IN IF Len(encoding) < ref.Size
                  THEN encoding \o lzssEmit(refs, n + 1, ref.Size - 1)
                  ELSE <<ref.Value[1]>> \o lzssEmit(refs, n + 1, 0)
          ELSE ref.Value \o lzssEmit(refs, n + 1, 0)

\* compress(content, matchDistance, matchLength)
lzssCompress(content, matchDistance, matchLength) ==
  LET contentRune == escapeConflictingSymbols(Runes(content))
      refs == FindMatch(contentRune, matchDistance, matchLength)
  IN Utf8Seq(lzssEmit(refs, 1, 0))

RECURSIVE countEscapesLoop(_, _, _)
countEscapesLoop(content, i, count) ==
  IF i < 0 THEN count
  ELSE IF At(content, i) # Escape THEN count
  ELSE countEscapesLoop(content, i - 1, count + 1)

countEscapesInReverse(content, endIdx) ==
  IF endIdx < 0 THEN 0 ELSE countEscapesLoop(content, endIdx, 0)

\* strconv.Atoi with its optional sign: Ok(n) or Err
AtoiSigned(s) ==
  IF s # <<>> /\ s[1] \in {43, 45}
  THEN LET n == Atoi(Tail(s))
       IN IF n < 0 THEN Err("invalid syntax") ELSE Ok(IF s[1] = 45 THEN 0 - n ELSE n)
  ELSE LET n == Atoi(s) IN IF n < 0 THEN Err("invalid syntax") ELSE Ok(n)

\* replaceRef: content[startIdx:endIdx].  A slice expression panics when its
\* bounds are inverted or negative; an end beyond len(content) is within the
\* slice's capacity only by the allocator's rounding and is a panic here.
replaceRef(content, refIdx, negOffset, length) ==
  LET startIdx == refIdx - negOffset
      endIdx == startIdx + length
  IN IF startIdx < 0 \/ endIdx < startIdx \/ endIdx > Len(content)
     THEN Panic("slice bounds out of range")
     ELSE Ok(Slice(content, startIdx, endIdx))

\* decodeBackRefs from index i on; st holds the loop's variables
RECURSIVE decodeBackRefsLoop(_, _, _)
decodeBackRefsLoop(refedContent, i, st) ==
  IF i >= Len(refedContent) THEN Ok(st.derefedContent)
  ELSE LET c == At(refedContent, i)
       IN IF ~st.refOn /\ c = Opening /\ countEscapesInReverse(refedContent, i - 1) % 2 = 0
          THEN decodeBackRefsLoop(refedContent, i + 1,
                 [st EXCEPT !.refValue = <<>>, !.refOn = TRUE,
                            !.currentRefStart = Len(st.derefedContent)])
          ELSE IF st.refOn
          THEN IF c = Separator
               THEN LET n == AtoiSigned(st.refValue)
                    IN IF n.st # "ok" THEN n
                       ELSE decodeBackRefsLoop(refedContent, i + 1,
                              [st EXCEPT !.currentNegOffset = n.val, !.refValue = <<>>])
               ELSE IF c = Closing
               THEN LET n == AtoiSigned(st.refValue)
                    IN IF n.st # "ok" THEN n
                       ELSE LET r == replaceRef(st.derefedContent, st.currentRefStart,
                                                st.currentNegOffset, n.val)
                            IN IF r.st # "ok" THEN r
                               ELSE decodeBackRefsLoop(refedContent, i + 1,
                                      [st EXCEPT !.currentLength = n.val, !.refOn = FALSE,
                                                 !.derefedContent = @ \o r.val])
               ELSE decodeBackRefsLoop(refedContent, i + 1,
                                       [st EXCEPT !.refValue = Append(@, c)])
          ELSE decodeBackRefsLoop(refedContent, i + 1,
                                  [st EXCEPT !.derefedContent = Append(@, c)])

decodeBackRefs(refedContent) ==
  decodeBackRefsLoop(refedContent, 0,
    [refOn |-> FALSE, currentNegOffset |-> 0, currentLength |-> 0, currentRefStart |-> 0,
     refValue |-> <<>>, derefedContent |-> <<>>])

\* removeEscapes from index i down; cleaned is built back to front
RECURSIVE removeEscapesLoop(_, _, _)
removeEscapesLoop(content, i, cleanedContent) ==
  IF i < 0 THEN Ok(ReverseSeq(cleanedContent))
  ELSE IF At(content, i) \in conflictingLiterals
  THEN IF i = 0 \/ At(content, i - 1) # Escape
       THEN Err("conflicting literal not escaped")
       ELSE removeEscapesLoop(content, i - 2, Append(cleanedContent, At(content, i)))
  ELSE removeEscapesLoop(content, i - 1, Append(cleanedContent, At(content, i)))

removeEscapes(content) == removeEscapesLoop(content, Len(content) - 1, <<>>)

\* decompress(content)
lzssDecompress(content) ==
  LET ofCleaned(cleaned) ==
        IF cleaned.st # "ok" THEN cleaned ELSE Ok(Utf8Seq(cleaned.val))
      ofDerefed(derefed) ==
        IF derefed.st # "ok" THEN derefed ELSE ofCleaned(removeEscapes(derefed.val))
  IN ofDerefed(decodeBackRefs(Runes(content)))

(***************************************************************************)
(* huffman/utils.go: the canonical encoder.  A code table is a function    *)
(* on 0..A-1 whose entries are NilCode (a nil interface) or a              *)
(* CanonicalHuffmanCode.                                                   *)
(***************************************************************************)
NilCode == [isNil |-> TRUE, Code |-> 0, Length |-> 0]

\* dfs with the right subtree one level too deep
RECURSIVE dfsDeep(_, _)
dfsDeep(tree, len) ==
  IF tree.kind = "leaf" THEN {<<tree.symbol, len>>}
  ELSE dfsDeep(tree.left, len + 1) \cup dfsDeep(tree.right, len + 2)

RECURSIVE dfs(_, _)
dfs(tree, len) ==
  IF tree.kind = "leaf" THEN {<<tree.symbol, len>>}
  ELSE dfs(tree.left, len + 1) \cup dfs(tree.right, len + 1)

\* sort.Slice(order, ...) by (length, symbol): the symbols in that order
canonicalOrder(lengths) ==
  LET present == {sym \in DOMAIN lengths : lengths[sym] # 0}
      keys == SortedSeq({lengths[sym] * 1024 + sym : sym \in present})
  IN [k \in 1..Len(keys) |-> keys[k] % 1024]

\* for i := 1; i < len(lengthCounts); i++ { code = (code + lengthCounts[i-1]) << 1 ... }
RECURSIVE nextBaseCodes(_, _, _, _)
nextBaseCodes(lengthCounts, i, code, acc) ==
  IF i > Len(lengthCounts) - 1 THEN acc
  ELSE LET c == (code + lengthCounts[i]) * 2   \* lengthCounts[i] holds index i-1
       IN nextBaseCodes(lengthCounts, i + 1, c, Append(acc, c))

\* the final loop without nextBaseCode[length]++
RECURSIVE assignCodesStuck(_, _, _, _)
assignCodesStuck(order, lengths, nextBaseCode, output) ==
  IF order = <<>> THEN output
  ELSE LET sym == Head(order)
           l == lengths[sym]
       IN assignCodesStuck(Tail(order), lengths, nextBaseCode,
                           [output EXCEPT ![sym] =
                              [isNil |-> FALSE, Code |-> nextBaseCode[l], Length |-> l]])

\* the final loop: output[info.symbol] = {nextBaseCode[length], length}; nextBaseCode[length]++
RECURSIVE assignCodes(_, _, _, _)
assignCodes(order, lengths, nextBaseCode, output) ==
  IF order = <<>> THEN output
  ELSE LET sym == Head(order)
           l == lengths[sym]
       IN assignCodes(Tail(order), lengths,
                      [nextBaseCode EXCEPT ![l] = @ + 1],
                      [output EXCEPT ![sym] =
                         [isNil |-> FALSE, Code |-> nextBaseCode[l], Length |-> l]])

\* lengthCounts as a sequence: entry l+1 counts the symbols of length l > 0
lengthCountsOf(lengths, maxLength) ==
  [k \in 1..(maxLength + 1) |->
     IF k = 1 THEN 0 ELSE Cardinality({sym \in DOMAIN lengths : lengths[sym] = k - 1})]

\* the code assignment shared by the encoder and the decoder: nextBaseCode
\* as a function on 1..maxLength
baseCodesOf(lengths, maxLength) ==
  LET acc == nextBaseCodes(lengthCountsOf(lengths, maxLength), 1, 0, <<>>)
  IN [l \in 1..maxLength |-> acc[l]]

MaxOf(S) == IF S = {} THEN 0 ELSE CHOOSE x \in S : \A y \in S : y <= x

\* BuildCanonicalHuffmanEncoder(symbolFreq, lengthLimit); symbolFreq is a
\* function on 0..A-1
BuildCanonicalHuffmanEncoder(symbolFreq, lengthLimit) ==
  LET present == {sym \in DOMAIN symbolFreq : symbolFreq[sym] > 0}
      assign(lengths, maxLength) ==
        IF maxLength > lengthLimit THEN Err("tree is longer than the limit")
        ELSE Ok(assignCodes(canonicalOrder(lengths), lengths,
                            baseCodesOf(lengths, maxLength),
                            [sym \in DOMAIN symbolFreq |-> NilCode]))
      ofLengths(lengths) == assign(lengths, MaxOf({lengths[sym] : sym \in DOMAIN lengths}))
      ofDepths(depths) ==
        ofLengths([sym \in DOMAIN symbolFreq |->
                     IF symbolFreq[sym] > 0
                     THEN (CHOOSE d \in depths : d[1] = sym)[2] ELSE 0])
      ofRoot(root) ==
        IF root.kind = "panic" THEN Panic("index out of range")
        ELSE ofDepths(IF root.kind = "leaf" THEN {<<root.symbol, 1>>} ELSE dfs(root, 0))
  IN ofRoot(buildTree([sym \in present |-> symbolFreq[sym]]))

\* Reverse(n, length)
RECURSIVE Reverse(_, _)
Reverse(n, length) ==
  IF length = 0 THEN 0
  ELSE (n % 2) * Pow2(length - 1) + Reverse(n \div 2, length - 1)

(***************************************************************************)
(* flate/inflate.go: the rulebooks.  A rulebook lookup of a key the map    *)
(* does not hold yields the zero value {ExtraBits: 0, Base: 0}.            *)
(***************************************************************************)
maxAllowedBackwardDistance == 32768

maxAllowedMatchLength == 258

lenBases ==
  <<3, 4, 5, 6, 7, 8, 9, 10, 11, 13, 15, 17, 19, 23, 27, 31, 35, 43, 51, 59,
    67, 83, 99, 115, 131, 163, 195, 227, 258>>

lenExtraBits ==
  <<0, 0, 0, 0, 0, 0, 0, 0, 1, 1, 1, 1, 2, 2, 2, 3, 3, 3, 3, 3,
    4, 4, 4, 4, 5, 5, 5, 5, 0>>

lenAlphabets(key) ==
  IF key >= 257 /\ key <= 285
  THEN [ok |-> TRUE, ExtraBits |-> lenExtraBits[key - 256], Base |-> lenBases[key - 256]]
  ELSE [ok |-> FALSE, ExtraBits |-> 0, Base |-> 0]

distBases ==
  <<1, 2, 3, 4, 5, 7, 9, 13, 17, 25, 33, 49, 65, 97, 129, 193, 257, 385, 513, 769,
    1025, 1537, 2049, 3073, 4097, 6145, 8193, 12289, 16385, 24577>>

distExtraBits ==
  <<0, 0, 0, 0, 1, 1, 2, 2, 3, 3, 4, 4, 5, 5, 6, 6, 7, 7, 8, 8,
    9, 9, 10, 10, 11, 11, 12, 12, 13, 13>>

distAlphabets(key) ==
  IF key >= 0 /\ key <= 29
  THEN [ok |-> TRUE, ExtraBits |-> distExtraBits[key + 1], Base |-> distBases[key + 1]]
  ELSE [ok |-> FALSE, ExtraBits |-> 0, Base |-> 0]

rleAlphabets(key) ==
  IF key = 16 THEN [ok |-> TRUE, ExtraBits |-> 2, Base |-> 3]
  ELSE IF key = 17 THEN [ok |-> TRUE, ExtraBits |-> 3, Base |-> 3]
  ELSE IF key = 18 THEN [ok |-> TRUE, ExtraBits |-> 7, Base |-> 11]
  ELSE IF key >= 0 /\ key <= 15 THEN [ok |-> TRUE, ExtraBits |-> 0, Base |-> key]
  ELSE [ok |-> FALSE, ExtraBits |-> 0, Base |-> 0]

rleKeyOrder == <<16, 17, 18, 0, 8, 7, 9, 6, 10, 5, 11, 4, 12, 3, 13, 2, 14, 1, 15>>

(***************************************************************************)
(* flate/inflate.go: tokens and the code searches of the encoder.          *)
(***************************************************************************)
LiteralToken == 0

MatchToken == 1

EndOfBlockToken == 2

Token(kind, value, length, distance) ==
  [Kind |-> kind, Value |-> value, Length |-> length, Distance |-> distance,
   DistanceCode |-> 0, DistanceOffset |-> 0, LengthCode |-> 0, LengthOffset |-> 0]

RECURSIVE literalTokens(_)
literalTokens(bytes) ==
  IF bytes = <<>> THEN <<>>
  ELSE <<Token(LiteralToken, Head(bytes), 0, 0)>> \o literalTokens(Tail(bytes))

\* tokeniseLoop taking every reference for a match, those of two runes too
RECURSIVE tokeniseLoopShort(_, _, _, _)
tokeniseLoopShort(refs, n, nextRunesToIgnore, tokens) ==
  IF n > Len(refs) THEN Ok(tokens)
  ELSE LET ref == refs[n]
       IN IF nextRunesToIgnore > 0
          THEN tokeniseLoopShort(refs, n + 1, nextRunesToIgnore - 1, tokens)
          ELSE IF ~ref.IsRef
          THEN tokeniseLoopShort(refs, n + 1, 0, tokens \o literalTokens(Utf8(ref.Value[1])))
          ELSE tokeniseLoopShort(refs, n + 1, ref.Size - 1,
                                 Append(tokens, Token(MatchToken, 0, ref.Size, ref.NegativeOffset)))

\* tokeniseLZSS over the references from index n on: Ok(tokens) or Err
RECURSIVE tokeniseLoop(_, _, _, _)
tokeniseLoop(refs, n, nextRunesToIgnore, tokens) ==
  IF n > Len(refs) THEN Ok(tokens)
  ELSE LET ref == refs[n]
       IN IF nextRunesToIgnore > 0 THEN tokeniseLoop(refs, n + 1, nextRunesToIgnore - 1, tokens)
          ELSE IF ~ref.IsRef \/ ref.Size < 3
          THEN tokeniseLoop(refs, n + 1, 0, tokens \o literalTokens(Utf8(ref.Value[1])))
          ELSE IF ref.Size > ref.NegativeOffset
          THEN Err("token match overlapping with the reference")
          ELSE IF ref.Size > maxAllowedMatchLength
          THEN Err("token match cannot be longer")
          ELSE IF ref.NegativeOffset > maxAllowedBackwardDistance
          THEN Err("token match cannot be farther backward")
          ELSE tokeniseLoop(refs, n + 1, ref.Size - 1,
                            Append(tokens, Token(MatchToken, 0, ref.Size, ref.NegativeOffset)))

tokeniseLZSS(refs) == tokeniseLoop(refs, 1, 0, <<>>)

\* DistanceCode.FindCode: Ok(<<code, offset>>) or Err
distFindCode(value) ==
  IF value < 1 \/ value > maxAllowedBackwardDistance
  THEN Err("value is out of range to have a match with RFC distance code")
  ELSE LET hits == {i \in 0..29 : value >= distAlphabets(i).Base
                                  /\ (i + 1 = 30 \/ value < distAlphabets(i + 1).Base)}
       IN IF hits = {} THEN Err("no distance code found")
          ELSE LET i == CHOOSE h \in hits : TRUE
               IN Ok(<<i, value - distAlphabets(i).Base>>)

\* LitLengthCode.FindCode: the first key of KeyOrder that brackets value
RECURSIVE lenFindLoop(_, _)
lenFindLoop(value, key) ==
  IF key > 285 THEN Err("no length code found")
  ELSE IF value >= lenAlphabets(key).Base
          /\ (~lenAlphabets(key + 1).ok \/ value < lenAlphabets(key + 1).Base)
  THEN Ok(<<key, value - lenAlphabets(key).Base>>)
  ELSE lenFindLoop(value, key + 1)

lenFindCode(value) ==
  IF value < 3 \/ value > maxAllowedMatchLength
  THEN Err("value is out of range to have a match with RFC length code")
  ELSE lenFindLoop(value, 257)

\* one iteration of the loop of findLengthBoundary, on the loop state
\* [st, length, zeros]; an error ends the loop
boundaryStep(items, threshold, limit, i, s) ==
  IF s.st # "ok" THEN s
  ELSE LET info == At(items, i)
       IN IF i <= threshold
          THEN [s EXCEPT !.length = Append(@, IF info.isNil THEN 0 ELSE info.Length)]
          ELSE IF info.isNil \/ info.Length = 0
          THEN [s EXCEPT !.zeros = Append(@, 0)]
          ELSE IF info.Length > limit
          THEN [s EXCEPT !.st = "err"]
          ELSE [s EXCEPT !.length = (@ \o s.zeros) \o <<info.Length>>, !.zeros = <<>>]

\* the iterations lo..hi in order (split in halves to bound the nesting)
RECURSIVE boundaryLoop(_, _, _, _, _, _)
boundaryLoop(items, threshold, limit, lo, hi, s) ==
  IF lo > hi THEN s
  ELSE IF lo = hi THEN boundaryStep(items, threshold, limit, lo, s)
  ELSE LET mid == (lo + hi) \div 2
           left == boundaryLoop(items, threshold, limit, lo, mid, s)
       IN IF left.st # "ok" THEN left
          ELSE boundaryLoop(items, threshold, limit, mid + 1, hi, left)

\* findLengthBoundary(items, threshold, limit); items is a sequence of table entries
findLengthBoundary(items, threshold, limit) ==
  LET s == boundaryLoop(items, threshold, limit, 0, Len(items) - 1,
                        [st |-> "ok", length |-> <<>>, zeros |-> <<>>])
  IN IF s.st = "ok" THEN Ok(s.length) ELSE Err("length is too long for the huffman code")

TableSeq(table) == [k \in 1..Cardinality(DOMAIN table) |-> table[k - 1]]

(***************************************************************************)
(* uint32 values of the bit buffers and of CRC-32 are sequences of 32 bits *)
(* with the least significant bit first, so that shifts lose the bits a    *)
(* uint32 loses.                                                           *)
(***************************************************************************)
Zero32 ==
  <<0, 0, 0, 0, 0, 0, 0, 0, 0, 0, 0, 0, 0, 0, 0, 0,
    0, 0, 0, 0, 0, 0, 0, 0, 0, 0, 0, 0, 0, 0, 0, 0>>

\* the n low bits of a number below 2^31, least significant first
RECURSIVE BitsOf(_, _)
BitsOf(n, width) == IF width = 0 THEN <<>> ELSE <<n % 2>> \o BitsOf(n \div 2, width - 1)

\* uint32(n) for 0 <= n < 2^31
Bits32(n) == BitsOf(n, 31) \o <<0>>

\* the number held in the low n <= 31 bits
RECURSIVE LowInt(_, _)
LowInt(w, n) == IF n = 0 THEN 0 ELSE w[1] + 2 * LowInt(Tail(w), n - 1)

RECURSIVE BitOr(_, _)
BitOr(a, b) ==
  IF a = <<>> THEN <<>>
  ELSE <<IF a[1] = 1 \/ b[1] = 1 THEN 1 ELSE 0>> \o BitOr(Tail(a), Tail(b))

RECURSIVE BitXor(_, _)
BitXor(a, b) ==
  IF a = <<>> THEN <<>>
  ELSE <<IF a[1] # b[1] THEN 1 ELSE 0>> \o BitXor(Tail(a), Tail(b))

Ones32 ==
  <<1, 1, 1, 1, 1, 1, 1, 1, 1, 1, 1, 1, 1, 1, 1, 1,
    1, 1, 1, 1, 1, 1, 1, 1, 1, 1, 1, 1, 1, 1, 1, 1>>

\* ^a
BitNot(a) == BitXor(a, Ones32)

Shl32(w, n) == IF n >= 32 THEN Zero32 ELSE SubSeq(Zero32, 1, n) \o SubSeq(w, 1, 32 - n)

Shr32(w, n) == IF n >= 32 THEN Zero32 ELSE SubSeq(w, n + 1, 32) \o SubSeq(Zero32, 1, n)

\* w & ((1 << n) - 1)
LowBits32(w, n) == IF n >= 32 THEN w ELSE SubSeq(w, 1, n) \o SubSeq(Zero32, 1, 32 - n)

(***************************************************************************)
(* flate/inflate.go: CodeLengthCode.FindCode, the run-length encoding of   *)
(* the concatenated code lengths into {RLECode, Offset} pairs.             *)
(***************************************************************************)
RLE(code, offset) == [RLECode |-> code, Offset |-> offset]

\* resolveCountZero with the code-17 range ending one zero early
resolveCountZeroShort(s) ==
  IF s.st # "ok" \/ s.countZero = 0 THEN s
  ELSE IF s.countZero < 3
  THEN [s EXCEPT !.condensed = @ \o Repeat(<<RLE(0, 0)>>, s.countZero), !.countZero = 0]
  ELSE IF s.countZero < 10
  THEN [s EXCEPT !.condensed = Append(@, RLE(17, s.countZero - 3)), !.countZero = 0]
  ELSE [s EXCEPT !.condensed = Append(@, RLE(18, s.countZero - 11)), !.countZero = 0]

\* resolveCountZero on the loop state [st, countZero, countSame, condensed]
resolveCountZero(s) ==
  IF s.st # "ok" \/ s.countZero = 0 THEN s
  ELSE IF s.countZero < 3
  THEN [s EXCEPT !.condensed = @ \o Repeat(<<RLE(0, 0)>>, s.countZero), !.countZero = 0]
  ELSE IF s.countZero < 11
  THEN [s EXCEPT !.condensed = Append(@, RLE(17, s.countZero - 3)), !.countZero = 0]
  ELSE IF s.countZero < 138
  THEN [s EXCEPT !.condensed = Append(@, RLE(18, s.countZero - 11)), !.countZero = 0]
  ELSE [s EXCEPT !.st = "err"]

\* resolveCountSame(prevIndex)
resolveCountSame(lengths, prevIndex, s) ==
  IF s.st # "ok" \/ s.countSame = 0 THEN s
  ELSE IF s.countSame < 3
  THEN [s EXCEPT !.condensed = @ \o Repeat(<<RLE(At(lengths, prevIndex), 0)>>, s.countSame),
                 !.countSame = 0]
  ELSE IF s.countSame < 6
  THEN [s EXCEPT !.condensed = Append(@, RLE(16, s.countSame - 3)), !.countSame = 0]
  ELSE [s EXCEPT !.st = "err"]

\* one iteration of the loop of FindCode
rleStep(lengths, i, s) ==
  IF s.st # "ok" THEN s
  ELSE LET length == At(lengths, i)
       IN IF length = 0
          THEN LET t == resolveCountSame(lengths, i - 1, s)
               IN IF t.st # "ok" THEN t
                  ELSE IF t.countZero + 1 = 138
                  THEN [t EXCEPT !.condensed = Append(@, RLE(18, 138 - 11)), !.countZero = 0]
                  ELSE [t EXCEPT !.countZero = @ + 1]
          ELSE IF i = 0 \/ length # At(lengths, i - 1)
          THEN LET t == resolveCountSame(lengths, i - 1, resolveCountZero(s))
               IN IF t.st # "ok" THEN t
                  ELSE [t EXCEPT !.condensed = Append(@, RLE(length, 0))]
          ELSE IF s.countSame + 1 = 6
          THEN [s EXCEPT !.condensed = Append(@, RLE(16, 6 - 3)), !.countSame = 0]
          ELSE [s EXCEPT !.countSame = @ + 1]

\* the iterations lo..hi in order (split in halves to bound the nesting)
RECURSIVE rleLoop(_, _, _, _)
rleLoop(lengths, lo, hi, s) ==
  IF lo > hi THEN s
  ELSE IF lo = hi THEN rleStep(lengths, lo, s)
  ELSE LET mid == (lo + hi) \div 2
           left == rleLoop(lengths, lo, mid, s)
       IN IF left.st # "ok" THEN left ELSE rleLoop(lengths, mid + 1, hi, left)

\* CodeLengthCode.FindCode: Ok(HuffmanLengthCondensed) or Err
rleFindCode(lengthHuffmanLengths) ==
  LET s == rleLoop(lengthHuffmanLengths, 0, Len(lengthHuffmanLengths) - 1,
                   [st |-> "ok", countZero |-> 0, countSame |-> 0, condensed |-> <<>>])
      t == resolveCountSame(lengthHuffmanLengths, Len(lengthHuffmanLengths) - 1,
                            resolveCountZero(s))
  IN IF t.st = "ok" THEN Ok(t.condensed)
     ELSE Err("such a long sequence cannot be encoded")

\* CodeLengthCode.shuffle
shuffle(code) == [k \in 1..Len(rleKeyOrder) |-> code[rleKeyOrder[k]]]

\* symbolFreq[x]++ over a sequence of symbols, as a function on 0..size-1
FreqOf(symbols, size) ==
  [sym \in 0..(size - 1) |-> Cardinality({k \in 1..Len(symbols) : symbols[k] = sym})]

\* CodeLengthCode.Encode: Ok([Condensed, CondensedHuffman, Lengths]), Err or Panic
rleEncode(lengthHuffmanLengths) ==
  LET result(found, enc, bound) ==
        IF bound.st # "ok" THEN bound
        ELSE Ok([Condensed |-> found.val, CondensedHuffman |-> enc.val,
                 Lengths |-> bound.val])
      ofEncoder(found, enc) ==
        IF enc.st # "ok" THEN enc
        ELSE result(found, enc, findLengthBoundary(shuffle(enc.val), 3, 7))
      ofFound(found) ==
        IF found.st # "ok" THEN found
        ELSE ofEncoder(found,
               BuildCanonicalHuffmanEncoder(
                 FreqOf([k \in 1..Len(found.val) |-> found.val[k].RLECode], 19), 7))
  IN ofFound(rleFindCode(lengthHuffmanLengths))

(***************************************************************************)
(* flate/inflate.go: LitLengthCode.Encode and DistanceCode.Encode.         *)
(***************************************************************************)
\* the loop of LitLengthCode.Encode over tokens[n..]: Ok(tokens with codes) or Err
RECURSIVE litLenCodes(_, _)
litLenCodes(tokens, n) ==
  IF n > Len(tokens) THEN Ok(tokens)
  ELSE IF tokens[n].Kind = LiteralToken THEN litLenCodes(tokens, n + 1)
  ELSE LET fc == lenFindCode(tokens[n].Length)
       IN IF fc.st # "ok" THEN fc
          ELSE litLenCodes([tokens EXCEPT ![n].LengthCode = fc.val[1],
                                          ![n].LengthOffset = fc.val[2]], n + 1)

\* Ok([Tokens, LitLengthHuffman, Lengths]), Err or Panic
litLenEncode(tokens) ==
  LET result(coded, enc, bound) ==
        IF bound.st # "ok" THEN bound
        ELSE Ok([Tokens |-> coded.val, LitLengthHuffman |-> enc.val,
                 Lengths |-> bound.val])
      ofEncoder(coded, enc) ==
        IF enc.st # "ok" THEN enc
        ELSE result(coded, enc, findLengthBoundary(TableSeq(enc.val), 256, 15))
      symbolOf(token) ==
        IF token.Kind = LiteralToken THEN token.Value ELSE token.LengthCode
      ofCoded(coded) ==
        IF coded.st # "ok" THEN coded
        ELSE ofEncoder(coded,
               BuildCanonicalHuffmanEncoder(
                 FreqOf(Append([k \in 1..Len(tokens) |-> symbolOf(coded.val[k])], 256),
                        286), 15))
  IN ofCoded(litLenCodes(tokens, 1))

RECURSIVE distCodes(_, _)
distCodes(tokens, n) ==
  IF n > Len(tokens) THEN Ok(tokens)
  ELSE IF tokens[n].Kind # MatchToken THEN distCodes(tokens, n + 1)
  ELSE LET fc == distFindCode(tokens[n].Distance)
       IN IF fc.st # "ok" THEN fc
          ELSE distCodes([tokens EXCEPT ![n].DistanceCode = fc.val[1],
                                        ![n].DistanceOffset = fc.val[2]], n + 1)

\* Ok([Tokens, DistanceHuffman, Lengths]), Err or Panic
distEncode(tokens) ==
  LET result(coded, enc, bound) ==
        IF bound.st # "ok" THEN bound
        ELSE Ok([Tokens |-> coded.val, DistanceHuffman |-> enc.val,
                 Lengths |-> bound.val])
      ofEncoder(coded, enc) ==
        IF enc.st # "ok" THEN enc
        ELSE result(coded, enc, findLengthBoundary(TableSeq(enc.val), 0, 15))
      ofMatches(coded, matches) ==
        ofEncoder(coded,
          BuildCanonicalHuffmanEncoder(
            FreqOf([k \in 1..Len(matches) |-> matches[k].DistanceCode], 30), 15))
      ofCoded(coded) ==
        IF coded.st # "ok" THEN coded
        ELSE ofMatches(coded, SelectSeq(coded.val, LAMBDA t : t.Kind = MatchToken))
  IN ofCoded(distCodes(tokens, 1))

(***************************************************************************)
(* flate/inflate.go: the bit writer.  A writer state is the bitBuffer of   *)
(* the core and the bytes appended to its outputBuffer.                    *)
(***************************************************************************)
NewBitBuffer == [bitsHolder |-> Zero32, bitsCount |-> 0]

\* for bb.bitsCount >= 8 { emit the lowest byte }
RECURSIVE emitBytes(_)
emitBytes(w) ==
  IF w.bb.bitsCount < 8 THEN w
  ELSE emitBytes([bb |-> [bitsHolder |-> Shr32(w.bb.bitsHolder, 8),
                          bitsCount |-> w.bb.bitsCount - 8],
                  out |-> Append(w.out, LowInt(w.bb.bitsHolder, 8))])

\* writeCompressedContent on a uint32 value
RECURSIVE writeBits(_, _, _)
writeBits(w, value, nbits) ==
  IF nbits = 0 THEN w
  ELSE LET trimbits == Min2(nbits, 32 - w.bb.bitsCount)
           holder == BitOr(w.bb.bitsHolder,
                           Shl32(LowBits32(value, trimbits), w.bb.bitsCount))
           w1 == emitBytes([bb |-> [bitsHolder |-> holder,
                                    bitsCount |-> w.bb.bitsCount + trimbits],
                            out |-> w.out])
       IN writeBits(w1, Shr32(value, trimbits), nbits - trimbits)

writeCompressedContent(w, value, nbits) == writeBits(w, Bits32(value), nbits)

\* the writes lo..hi of a sequence of <<value, nbits>> writes, in order (split
\* in halves to bound the nesting)
RECURSIVE writeRange(_, _, _, _)
writeRange(w, writes, lo, hi) ==
  IF lo > hi THEN w
  ELSE IF lo = hi THEN writeCompressedContent(w, writes[lo][1], writes[lo][2])
  ELSE LET mid == (lo + hi) \div 2
           left == writeRange(w, writes, lo, mid)
       IN IF left.bb.bitsCount >= 8 THEN left ELSE writeRange(left, writes, mid + 1, hi)

writeAll(w, writes) == writeRange(w, writes, 1, Len(writes))

\* flushAlign: Ok(writer state) or Err
flushAlign(w) ==
  IF w.bb.bitsCount > 8 THEN Err("bits not written to the output buffer yet")
  ELSE IF w.bb.bitsCount > 0 THEN Ok(writeCompressedContent(w, 0, 8 - w.bb.bitsCount))
  ELSE Ok(w)

\* the writes of one Huffman code: Reverse(code, length) on length bits
codeWrite(huff) == <<Reverse(huff.Code, huff.Length), huff.Length>>

extraWrite(offset, extraBits) == IF extraBits > 0 THEN <<<<offset, extraBits>>>> ELSE <<>>

RECURSIVE condensedWrites(_, _)
condensedWrites(condensed, table) ==
  IF condensed = <<>> THEN <<>>
  ELSE LET code == Head(condensed)
       IN <<codeWrite(table[code.RLECode])>>
          \o extraWrite(code.Offset, rleAlphabets(code.RLECode).ExtraBits)
          \o condensedWrites(Tail(condensed), table)

RECURSIVE tokenWrites(_, _, _)
tokenWrites(tokens, litLen, dist) ==
  IF tokens = <<>> THEN <<>>
  ELSE LET token == Head(tokens)
       IN (IF token.Kind = LiteralToken
           THEN <<codeWrite(litLen[token.Value])>>
           ELSE <<codeWrite(litLen[token.LengthCode])>>
                \o extraWrite(token.LengthOffset, lenAlphabets(token.LengthCode).ExtraBits)
                \o <<codeWrite(dist[token.DistanceCode])>>
                \o extraWrite(token.DistanceOffset, distAlphabets(token.DistanceCode).ExtraBits))
          \o tokenWrites(Tail(tokens), litLen, dist)

\* CompressionWriter.compress(content) on a core holding bitBuffer bb and the
\* block header fields: Ok/Err/Panic, val = the writer state afterwards
flateCompress(content, bb, btype, bfinal) ==
  LET writes(ll, dc, cl) ==
        <<<<bfinal, 1>>, <<btype, 2>>, <<Len(ll.Lengths) - 257, 5>>,
          <<Len(dc.Lengths) - 1, 5>>, <<Len(cl.Lengths) - 4, 4>>>>
        \o [k \in 1..Len(cl.Lengths) |-> <<cl.Lengths[k], 3>>]
        \o condensedWrites(cl.Condensed, cl.CondensedHuffman)
        \o tokenWrites(dc.Tokens, ll.LitLengthHuffman, dc.DistanceHuffman)
        \o <<codeWrite(ll.LitLengthHuffman[256])>>
      ofLengths(ll, dc, cl) ==
        IF cl.st # "ok" THEN cl
        ELSE flushAlign(writeAll([bb |-> bb, out |-> <<>>], writes(ll.val, dc.val, cl.val)))
      ofDistances(ll, dc) ==
        IF dc.st # "ok" THEN dc
        ELSE ofLengths(ll, dc, rleEncode(ll.val.Lengths \o dc.val.Lengths))
      ofLiterals(ll) ==
        IF ll.st # "ok" THEN ll ELSE ofDistances(ll, distEncode(ll.val.Tokens))
      ofTokens(tokens) ==
        IF tokens.st # "ok" THEN tokens ELSE ofLiterals(litLenEncode(tokens.val))
  IN ofTokens(tokeniseLZSS(FindMatch(Runes(content), maxAllowedBackwardDistance,
                                     maxAllowedMatchLength)))

(***************************************************************************)
(* huffman/utils.go: the canonical decoder tree.                           *)
(***************************************************************************)
NilNode == [isNil |-> TRUE]

EmptyNode == [isNil |-> FALSE, IsLeaf |-> FALSE, Symbol |-> 0, Left |-> NilNode, Right |-> NilNode]

\* whether buildCanonicalHuffmanTree reaches panic("nooooo leaf")
RECURSIVE treePanics(_, _, _)
treePanics(node, lengthRemaining, code) ==
  IF lengthRemaining = 0 THEN FALSE
  ELSE IF node.IsLeaf THEN TRUE
  ELSE LET child == IF code % 2 = 0 THEN node.Left ELSE node.Right
       IN IF child.isNil THEN FALSE
          ELSE treePanics(child, lengthRemaining - 1, code \div 2)

\* buildCanonicalHuffmanTree taking the code's bits from the other end
RECURSIVE buildTreeMsbFirst(_, _, _, _)
buildTreeMsbFirst(node, lengthRemaining, symbol, code) ==
  IF lengthRemaining = 0 THEN [node EXCEPT !.IsLeaf = TRUE, !.Symbol = symbol]
  ELSE IF (code \div Pow2(lengthRemaining - 1)) % 2 = 0
  THEN [node EXCEPT !.Left = buildTreeMsbFirst(
          IF node.Left.isNil THEN EmptyNode ELSE node.Left,
          lengthRemaining - 1, symbol, code)]
  ELSE [node EXCEPT !.Right = buildTreeMsbFirst(
          IF node.Right.isNil THEN EmptyNode ELSE node.Right,
          lengthRemaining - 1, symbol, code)]

RECURSIVE buildCanonicalHuffmanTree(_, _, _, _)
buildCanonicalHuffmanTree(node, lengthRemaining, symbol, code) ==
  IF lengthRemaining = 0 THEN [node EXCEPT !.IsLeaf = TRUE, !.Symbol = symbol]
  ELSE IF code % 2 = 0
  THEN [node EXCEPT !.Left = buildCanonicalHuffmanTree(
          IF node.Left.isNil THEN EmptyNode ELSE node.Left,
          lengthRemaining - 1, symbol, code \div 2)]
  ELSE [node EXCEPT !.Right = buildCanonicalHuffmanTree(
          IF node.Right.isNil THEN EmptyNode ELSE node.Right,
          lengthRemaining - 1, symbol, code \div 2)]

RECURSIVE decoderLoop(_, _, _, _)
decoderLoop(order, lengths, nextBaseCode, root) ==
  IF order = <<>> THEN Ok(root)
  ELSE LET sym == Head(order)
           l == lengths[sym]
           code == Reverse(nextBaseCode[l], l)
       IN IF treePanics(root, l, code) THEN Panic("nooooo leaf")
          ELSE decoderLoop(Tail(order), lengths, [nextBaseCode EXCEPT ![l] = @ + 1],
                           buildCanonicalHuffmanTree(root, l, sym, code))

\* BuildCanonicalHuffmanDecoder(lengths); lengths is a sequence, symbol k at k+1
BuildCanonicalHuffmanDecoder(lengths) ==
  LET fn == [sym \in 0..(Len(lengths) - 1) |-> lengths[sym + 1]]
      maxLength == MaxOf({lengths[k] : k \in 1..Len(lengths)})
  IN decoderLoop(canonicalOrder(fn), fn, baseCodesOf(fn, maxLength), EmptyNode)

\* CodeLengthCode.reshuffle
reshuffle(huffmanLengths) ==
  [k \in 1..19 |->
     LET hits == {i \in 1..Len(huffmanLengths) : rleKeyOrder[i] = k - 1}
     IN IF hits = {} THEN 0 ELSE huffmanLengths[CHOOSE i \in hits : TRUE]]

(***************************************************************************)
(* flate/inflate.go: the bit reader.  A reader state r is the bitBuffer    *)
(* and the unread bytes of the inputBuffer; every read returns             *)
(* [e, v, r]: e is "ok", "err" or "panic", v the value, r the state left.  *)
(***************************************************************************)
ROk(v, r) == [e |-> "ok", v |-> v, r |-> r]

RErr(r) == [e |-> "err", v |-> 0, r |-> r]

RPanic(r) == [e |-> "panic", v |-> 0, r |-> r]

\* for bb.bitsCount < nbits { read one byte into the holder }
RECURSIVE fillBits(_, _)
fillBits(r, nbits) ==
  IF r.bb.bitsCount >= nbits THEN ROk(0, r)
  ELSE IF r.input = <<>> THEN RErr(r)
  ELSE fillBits([bb |-> [bitsHolder |-> BitOr(r.bb.bitsHolder,
                                               Shl32(Bits32(Head(r.input)), r.bb.bitsCount)),
                         bitsCount |-> r.bb.bitsCount + 8],
                 input |-> Tail(r.input)], nbits)

\* readCompressedContent(bb, inputBuffer, nbits), for values below 2^31
readCompressedContent(r, nbits) ==
  LET take(f) ==
        IF f.e # "ok" THEN f
        ELSE ROk(LowInt(LowBits32(f.r.bb.bitsHolder, nbits), Min2(nbits, 31)),
                 [bb |-> [bitsHolder |-> Shr32(f.r.bb.bitsHolder, nbits),
                          bitsCount |-> f.r.bb.bitsCount - nbits],
                  input |-> f.r.input])
  IN IF nbits > 32 THEN RErr(r) ELSE take(fillBits(r, nbits))

RECURSIVE TraverseHuffmanTree(_, _)
TraverseHuffmanTree(r, node) ==
  LET descend(b, child) ==
        IF child.isNil THEN RErr(b.r) ELSE TraverseHuffmanTree(b.r, child)
      ofBit(b) ==
        IF b.e # "ok" THEN b
        ELSE descend(b, IF b.v = 0 THEN node.Left ELSE node.Right)
  IN IF node.IsLeaf THEN ROk(node.Symbol, r) ELSE ofBit(readCompressedContent(r, 1))

\* the extra bits of a rule: the offset read, 0 when the rule has none
readOffset(r, extraBits) ==
  IF extraBits > 0 THEN readCompressedContent(r, extraBits) ELSE ROk(0, r)

\* expandRule of ReadCondensedHuffman
expandRule(r, rule, concatenatedHuffmanLengths) ==
  LET expand(o) ==
        IF o.e # "ok" THEN o
        ELSE IF rule < 16 THEN ROk(<<rule>>, o.r)
        ELSE IF rule = 16
        THEN IF concatenatedHuffmanLengths = <<>> THEN RErr(o.r)
             ELSE ROk(Repeat(<<concatenatedHuffmanLengths[Len(concatenatedHuffmanLengths)]>>,
                             rleAlphabets(rule).Base + o.v), o.r)
        ELSE IF rule < 19 THEN ROk(Repeat(<<0>>, rleAlphabets(rule).Base + o.v), o.r)
        ELSE RErr(o.r)
  IN expand(readOffset(r, rleAlphabets(rule).ExtraBits))

RECURSIVE condensedLoop(_, _, _, _)
condensedLoop(r, root, total, concatenatedHuffmanLengths) ==
  LET ofLengths(lengths) ==
        IF lengths.e # "ok" THEN lengths
        ELSE condensedLoop(lengths.r, root, total, concatenatedHuffmanLengths \o lengths.v)
      ofRule(rule) ==
        IF rule.e # "ok" THEN rule
        ELSE ofLengths(expandRule(rule.r, rule.v, concatenatedHuffmanLengths))
  IN IF Len(concatenatedHuffmanLengths) >= total THEN ROk(concatenatedHuffmanLengths, r)
     ELSE ofRule(TraverseHuffmanTree(r, root))

\* ReadCondensedHuffman: v = <<litLenHuffmanLengths, distHuffmanLengths>>
ReadCondensedHuffman(r, root, HLIT, HDIST) ==
  LET split(all) ==
        IF all.e # "ok" THEN all
        ELSE ROk(<<Slice(all.v, 0, HLIT), Slice(all.v, HLIT, HLIT + HDIST)>>, all.r)
  IN split(condensedLoop(r, root, HLIT + HDIST, <<>>))

\* decodeLitLenRule and decodeDistRule inside the loop of ReadTokens
RECURSIVE readTokensLoop(_, _, _, _)
readTokensLoop(r, litLenRoot, distRoot, tokens) ==
  LET ofDistOffset(rule, o, dr, d) ==
        IF d.e # "ok" THEN d
        ELSE readTokensLoop(d.r, litLenRoot, distRoot,
               Append(tokens,
                 [Kind |-> MatchToken, Value |-> 0,
                  Length |-> lenAlphabets(rule.v).Base + o.v,
                  Distance |-> distAlphabets(dr.v).Base + d.v,
                  DistanceCode |-> dr.v, DistanceOffset |-> d.v,
                  LengthCode |-> rule.v, LengthOffset |-> o.v]))
      ofDistRule(rule, o, dr) ==
        IF dr.e # "ok" THEN dr
        ELSE ofDistOffset(rule, o, dr, readOffset(dr.r, distAlphabets(dr.v).ExtraBits))
      ofLenOffset(rule, o) ==
        IF o.e # "ok" THEN o
        ELSE IF rule.v < 256
        THEN readTokensLoop(o.r, litLenRoot, distRoot,
                            Append(tokens, Token(LiteralToken, rule.v, 0, 0)))
        ELSE IF rule.v = 256 THEN ROk(tokens, o.r)
        ELSE IF rule.v >= 286 THEN RErr(o.r)
        ELSE ofDistRule(rule, o, TraverseHuffmanTree(o.r, distRoot))
      ofLitLenRule(rule) ==
        IF rule.e # "ok" THEN rule
        ELSE ofLenOffset(rule, readOffset(rule.r, lenAlphabets(rule.v).ExtraBits))
  IN ofLitLenRule(TraverseHuffmanTree(r, litLenRoot))

ReadTokens(r, litLenRoot, distRoot) == readTokensLoop(r, litLenRoot, distRoot, <<>>)

\* DecodeTokens: Ok(bytes), or Panic when findMatch slices outside the runes
\* decoded so far (a slice that ends inside the spare capacity of the rune
\* slice is counted as out of range)
RECURSIVE decodeTokensLoop(_, _)
decodeTokensLoop(tokens, output) ==
  IF tokens = <<>> THEN Ok(output)
  ELSE LET token == Head(tokens)
       IN IF token.Kind = LiteralToken
          THEN decodeTokensLoop(Tail(tokens), Append(output, token.Value))
          ELSE IF token.Kind = MatchToken
          THEN LET outputSoFarRune == Runes(output)
                   startIdx == Len(outputSoFarRune) - token.Distance
                   endIdx == startIdx + token.Length
               IN IF startIdx < 0 \/ endIdx > Len(outputSoFarRune) \/ startIdx > endIdx
                  THEN Panic("slice bounds out of range")
                  ELSE decodeTokensLoop(Tail(tokens),
                         output \o Utf8Seq(Slice(outputSoFarRune, startIdx, endIdx)))
          ELSE decodeTokensLoop(Tail(tokens), output)

DecodeTokens(tokens) == decodeTokensLoop(tokens, <<>>)

\* the HCLEN three-bit reads
RECURSIVE readLengths(_, _, _)
readLengths(r, n, acc) ==
  LET ofLength(x) ==
        IF x.e # "ok" THEN x ELSE readLengths(x.r, n - 1, Append(acc, x.v))
  IN IF n = 0 THEN ROk(acc, r) ELSE ofLength(readCompressedContent(r, 3))

\* DecompressionWriter.decompress on the reader state r: [e, v, r] with v the
\* bytes written to the outputBuffer
flateDecompress(r) ==
  LET ofData(tokens, data) ==
        IF data.st # "ok" THEN RPanic(tokens.r) ELSE ROk(data.val, tokens.r)
      ofTokens(tokens) ==
        IF tokens.e # "ok" THEN tokens ELSE ofData(tokens, DecodeTokens(tokens.v))
      ofTrees(lens, llRoot, dRoot) ==
        IF llRoot.st # "ok" \/ dRoot.st # "ok" THEN RPanic(lens.r)
        ELSE ofTokens(ReadTokens(lens.r, llRoot.val, dRoot.val))
      ofLens(lens) ==
        IF lens.e # "ok" THEN lens
        ELSE ofTrees(lens, BuildCanonicalHuffmanDecoder(lens.v[1]),
                     BuildCanonicalHuffmanDecoder(lens.v[2]))
      ofClRoot(hlit, hdist, cl, clRoot) ==
        IF clRoot.st # "ok" THEN RPanic(cl.r)
        ELSE ofLens(ReadCondensedHuffman(cl.r, clRoot.val, hlit.v + 257, hdist.v + 1))
      ofCl(hlit, hdist, cl) ==
        IF cl.e # "ok" THEN cl
        ELSE ofClRoot(hlit, hdist, cl, BuildCanonicalHuffmanDecoder(reshuffle(cl.v)))
      ofHclen(hlit, hdist, hclen) ==
        IF hclen.e # "ok" THEN hclen
        ELSE ofCl(hlit, hdist, readLengths(hclen.r, hclen.v + 4, <<>>))
      ofHdist(hlit, hdist) ==
        IF hdist.e # "ok" THEN hdist
        ELSE ofHclen(hlit, hdist, readCompressedContent(hdist.r, 4))
      ofHlit(hlit) ==
        IF hlit.e # "ok" THEN hlit ELSE ofHdist(hlit, readCompressedContent(hlit.r, 5))
      ofBtype(btype) ==
        IF btype.e # "ok" THEN btype ELSE ofHlit(readCompressedContent(btype.r, 5))
      ofBfinal(bfinal) ==
        IF bfinal.e # "ok" THEN bfinal ELSE ofBtype(readCompressedContent(bfinal.r, 2))
  IN ofBfinal(readCompressedContent(r, 1))

(***************************************************************************)
(* gzip: CRC-32 (hash/crc32 with the IEEE polynomial, as Crc.Write and     *)
(* Sum32 compute it), the little-endian trailer and the fixed header.      *)
(***************************************************************************)
\* 0xedb88320, least significant bit first
IEEEPoly == BitsOf(32, 8) \o BitsOf(131, 8) \o BitsOf(184, 8) \o BitsOf(237, 8)

\* the eight shift-and-xor steps that make one entry of the table
RECURSIVE crcShift(_, _)
crcShift(crc, n) ==
  IF n = 0 THEN crc
  ELSE IF crc[1] = 1 THEN crcShift(BitXor(Shr32(crc, 1), IEEEPoly), n - 1)
  ELSE crcShift(Shr32(crc, 1), n - 1)

\* crc = tab[byte(crc) ^ v] ^ (crc >> 8) for every byte v of p
RECURSIVE crcBytes(_, _)
crcBytes(crc, p) ==
  IF p = <<>> \/ Len(crc) # 32 THEN crc   \* a digest has 32 bits; the test makes the fold strict
  ELSE crcBytes(crcShift(BitXor(crc, Bits32(Head(p))), 8), Tail(p))

\* the digest after Write(p) on a digest holding crc
crcWrite(crc, p) == BitNot(crcBytes(BitNot(crc), p))

\* binary.LittleEndian.PutUint32
PutUint32(w) == [k \in 1..4 |-> LowInt(SubSeq(w, 8 * k - 7, 8 * k), 8)]

\* binary.LittleEndian.Uint32
Uint32(b) == BitsOf(b[1], 8) \o BitsOf(b[2], 8) \o BitsOf(b[3], 8) \o BitsOf(b[4], 8)

gzipHeader == <<31, 139, 8, 0, 0, 0, 0, 0, 0, 255>>

\* the trailer CompressionWriter.Close builds from Crc and Size
gzipTrailer(crc, size) == PutUint32(crc) \o PutUint32(Bits32(size))

(***************************************************************************)
(* The cores of the codecs and their writer Close methods.  A core is      *)
(* [inputBuffer, outputBuffer, isInputBufferClosed, bitBuffer]; Close      *)
(* returns [st, core] with st "ok", "err" or "panic".                      *)
(***************************************************************************)
NewCore ==
  [inputBuffer |-> <<>>, outputBuffer |-> <<>>, isInputBufferClosed |-> FALSE,
   bitBuffer |-> NewBitBuffer]

\* huffman and lzss, CompressionWriter.Close and DecompressionWriter.Close:
\* the flag is set, the input is drained by io.ReadAll, the codec runs
textClose(algorithm, op, c, order) ==
  LET closed(r, c1) ==
        IF r.st = "ok"
        THEN [st |-> "ok", core |-> [c1 EXCEPT !.outputBuffer = @ \o r.val]]
        ELSE [st |-> r.st, core |-> c1]
      run(data) ==
        IF algorithm = "huffman"
        THEN IF op = "Compress" THEN huffmanCompress(data, order)
             ELSE huffmanDecompress(data)
        ELSE IF op = "Compress" THEN Ok(lzssCompress(data, 4096, Min2(4096, 4096)))
             ELSE lzssDecompress(data)
  IN closed(run(c.inputBuffer),
            [c EXCEPT !.isInputBufferClosed = TRUE, !.inputBuffer = <<>>])

\* flate, CompressionWriter.Close and DecompressionWriter.Close
flateClose(op, c, btype, bfinal) ==
  LET compressed(r, c1) ==
        IF r.st = "ok"
        THEN [st |-> "ok",
              core |-> [c1 EXCEPT !.outputBuffer = @ \o r.val.out,
                                  !.bitBuffer = r.val.bb,
                                  !.isInputBufferClosed = TRUE]]
        ELSE [st |-> r.st, core |-> c1]
      decompressed(r, c1) ==
        IF r.e = "ok"
        THEN [st |-> "ok",
              core |-> [c1 EXCEPT !.outputBuffer = @ \o r.v,
                                  !.isInputBufferClosed = TRUE]]
        ELSE [st |-> r.e, core |-> c1]
      left(r) == decompressed(r, [c EXCEPT !.bitBuffer = r.r.bb, !.inputBuffer = r.r.input])
  IN IF op = "Compress"
     THEN compressed(flateCompress(c.inputBuffer, c.bitBuffer, btype, bfinal),
                     [c EXCEPT !.inputBuffer = <<>>])
     ELSE left(flateDecompress([bb |-> c.bitBuffer, input |-> c.inputBuffer]))

(***************************************************************************)
(* part_001: the calls.  One call of Compress or Decompress runs at a      *)
(* time; when it has returned, the caller may decompress what Compress     *)
(* returned, or repeat the call with the same arguments.                   *)
(***************************************************************************)
MaxLen == 2

RunLen == 6

Alphabet == {97, 98, 60, 255}

\* every input up to MaxLen bytes, and runs of RunLen copies of one byte
Inputs == SeqsUpTo(Alphabet, MaxLen) \cup {Repeat(<<b>>, RunLen) : b \in Alphabet}

SupportedAlgorithms == {"huffman", "lzss", "flate", "gzip"}

AlgorithmNames == SupportedAlgorithms \cup {"zip", ""}

factoryMap ==
  ("huffman" :> "HuffmanFactory") @@ ("lzss" :> "LZSSFactory")
    @@ ("flate" :> "FlateFactory") @@ ("gzip" :> "GzipFactory")

IsValidAlgorithmLoose(algorithm) == algorithm \in DOMAIN factoryMap \/ algorithm = "zip"

IsValidAlgorithm(algorithm) == algorithm \in DOMAIN factoryMap

\* Options.BType and Options.BFinal; only the flate and gzip factories read them
OptionSet(a) ==
  IF a \in {"flate", "gzip"}
  THEN {[BType |-> 0, BFinal |-> 0], [BType |-> 0, BFinal |-> 1], [BType |-> 1, BFinal |-> 1]}
  ELSE {[BType |-> 0, BFinal |-> 0]}

\* FlateFactory and GzipFactory: btype 0 defaults to 2
factoryBType(btype) == IF btype = 0 THEN 2 ELSE btype

Call(op, a, data, o, kind) ==
  [op |-> op, Algorithm |-> a, data |-> data, BType |-> o.BType, BFinal |-> o.BFinal,
   kind |-> kind]

\* the deflate stream of b, when the encoder produces one
deflateOf(b) == flateCompress(b, NewBitBuffer, 2, 0)

\* the inputs the encoder produces a deflate stream for, with the stream
Deflated ==
  {d \in {[input |-> b, r |-> deflateOf(b)] : b \in Inputs} : d.r.st = "ok"}

gzipMember(deflate, b) ==
  gzipHeader \o deflate \o gzipTrailer(crcWrite(Zero32, b), Len(b))

\* the member with its last CRC byte, or its last ISIZE byte, flipped
flipAt(member, i) == [member EXCEPT ![i] = 255 - @]

\* what the codec itself produces for the inputs, as input of Decompress;
\* for flate also the same streams with 0, 1 or 3 in the BTYPE field
Encodings(a) ==
  LET members(m) ==
        {[kind |-> "encoded", data |-> m],
         [kind |-> "badcrc", data |-> flipAt(m, Len(m) - 4)],
         [kind |-> "badsize", data |-> flipAt(m, Len(m))]}
      typed(input) ==
        {[kind |-> "btype", data |-> flateCompress(input, NewBitBuffer, t, 0).val.out] :
           t \in {0, 1, 3}}
      streams(deflated) ==
        IF a = "flate"
        THEN {[kind |-> "encoded", data |-> d.r.val.out] : d \in deflated}
             \cup UNION {typed(d.input) : d \in deflated}
        ELSE UNION {members(gzipMember(d.r.val.out, d.input)) : d \in deflated}
  IN CASE a = "huffman" ->
            UNION {{[kind |-> "encoded", data |-> huffmanCompress(b, o).val] :
                      o \in MapOrders(b)} : b \in Inputs \ {<<>>}}
       [] a = "lzss" ->
            {[kind |-> "encoded", data |-> lzssCompress(b, 4096, 4096)] : b \in Inputs}
       [] a \in {"flate", "gzip"} -> streams(Deflated)
       [] OTHER -> {}

Calls ==
  UNION {{Call("Compress", a, b, o, "plain") : b \in Inputs, o \in OptionSet(a)} :
           a \in AlgorithmNames}
  \cup {Call("Decompress", a, b, [BType |-> 0, BFinal |-> 0], "plain") :
          a \in AlgorithmNames, b \in Inputs}
  \cup UNION {{Call("Decompress", a, e.data, [BType |-> 0, BFinal |-> 0], e.kind) :
                 e \in Encodings(a)} : a \in SupportedAlgorithms}

NoErr == <<>>

NilBytes == [isNil |-> TRUE, bytes |-> <<>>]

Bytes(b) == [isNil |-> FALSE, bytes |-> b]

NilStats == [isNil |-> TRUE]

\* what processData returns, and what Compress and Decompress return
NoReturn == [set |-> FALSE]

Returned2(data, err) == [set |-> TRUE, data |-> data, err |-> err]

Returned3(data, stats, err) == [set |-> TRUE, data |-> data, stats |-> stats, err |-> err]

NewChan == [buf |-> <<>>, closed |-> FALSE]

\* the gzip cores: the pipe ends, CompressionCore.Crc and Size, and
\* DecompressionCore.IsHeaderParsed, Trailer, CurrentCrc and CurrentSize
NewGzip ==
  [wclosed |-> FALSE, rclosed |-> FALSE, Crc |-> Zero32, Size |-> 0,
   IsHeaderParsed |-> FALSE, Trailer |-> <<0, 0, 0, 0, 0, 0, 0, 0>>,
   CurrentCrc |-> Zero32, CurrentSize |-> 0]

Idle == [main |-> "entry", reader |-> "none", header |-> "none", flate |-> "none"]

VARIABLES
  call,       \* the arguments of the running call
  link,       \* "none", or how the call follows prev: "roundtrip" or "repeat"
  prev,       \* the call before this one and what it returned
  pc,         \* where the main, reader, header and flate-closing goroutines are
  core,       \* the core of the huffman, lzss or flate codec
  gz,         \* the gzip core around the flate codec
  resultCh,   \* processData's channels
  errorCh,
  acc,        \* what io.ReadAll has read in the reader goroutine
  pd,         \* what processData returns
  panicking,  \* a panic is unwinding the main goroutine
  closing,    \* the gzip writer Close in progress: 1 explicit, 2 deferred
  ret,        \* what Compress or Decompress returned
  outcome,    \* "running", "returned", "panicked" or "crashed"
  failed,     \* a Read, Write or Close of this call has failed
  created,    \* the reader/writer pairs the call has created
  comFile     \* the contents of the file com.o

vars ==
  <<call, link, prev, pc, core, gz, resultCh, errorCh, acc, pd, panicking, closing,
    ret, outcome, failed, created, comFile>>

Fresh ==
  /\ pc = Idle
  /\ core = NewCore
  /\ gz = NewGzip
  /\ resultCh = NewChan
  /\ errorCh = NewChan
  /\ acc = <<>>
  /\ pd = NoReturn
  /\ panicking = FALSE
  /\ closing = 0
  /\ ret = NoReturn
  /\ outcome = "running"
  /\ failed = FALSE
  /\ created = 0

Init ==
  /\ call \in Calls
  /\ link = "none"
  /\ prev = NoReturn
  /\ comFile = <<>>
  /\ Fresh

Running == outcome = "running"

IsGzip == call.Algorithm = "gzip"

\* the per-call variables of a call that has not started
Reset ==
  /\ pc' = Idle
  /\ core' = NewCore
  /\ gz' = NewGzip
  /\ resultCh' = NewChan
  /\ errorCh' = NewChan
  /\ acc' = <<>>
  /\ pd' = NoReturn
  /\ panicking' = FALSE
  /\ closing' = 0
  /\ ret' = NoReturn
  /\ outcome' = "running"
  /\ failed' = FALSE
  /\ created' = 0

(***************************************************************************)
(* Compress and Decompress up to the call of processData: the check of the *)
(* algorithm, the factory, the reader and writer (for gzip Compress the    *)
(* header goroutine starts here), the defers and the reader goroutine.     *)
(***************************************************************************)
Entry ==
  /\ Running
  /\ pc.main = "entry"
  /\ IF ~IsValidAlgorithm(call.Algorithm)
     THEN /\ ret' = Returned3(NilBytes, NilStats, <<"unsupported algorithm">>)
          /\ outcome' = "returned"
          /\ pc' = [pc EXCEPT !.main = "done"]
          /\ UNCHANGED created
     ELSE IF call.Algorithm \notin DOMAIN factoryMap
     THEN \* factoryMap yields a nil factory: the method call panics
          /\ outcome' = "panicked"
          /\ pc' = [pc EXCEPT !.main = "done"]
          /\ UNCHANGED <<ret, created>>
     ELSE /\ created' = created + 1
          /\ pc' = [main |-> "write", reader |-> "read",
                    header |-> IF IsGzip /\ call.op = "Compress" THEN "write" ELSE "none",
                    flate |-> "none"]
          /\ UNCHANGED <<ret, outcome>>
  /\ UNCHANGED <<call, link, prev, core, gz, resultCh, errorCh, acc, pd, panicking,
                 closing, failed, comFile>>

\* flate CompressionWriter.Write and DecompressionWriter.Write
flateWrite(c, p) ==
  IF c.isInputBufferClosed THEN [st |-> "err", core |-> c]
  ELSE [st |-> "ok", core |-> [c EXCEPT !.inputBuffer = @ \o p]]

\* the trailer bookkeeping of gzip DecompressionWriter.Write
trailerAfter(Trailer, p) ==
  IF Len(Trailer) + Len(p) < 8 THEN Trailer \o p
  ELSE IF Len(p) < 8 THEN Slice(Trailer, Len(p), Len(Trailer)) \o p
  ELSE Slice(p, Len(p) - 8, Len(p)) \o Slice(Trailer, 8, Len(Trailer))

\* writer.Write(p) of the algorithm: [st, core, gz, file]
writerWrite(a, op, p, c, g, file, openOK) ==
  IF a \in {"huffman", "lzss"}
  THEN [st |-> "ok", core |-> [c EXCEPT !.inputBuffer = @ \o p], gz |-> g, file |-> file]
  ELSE IF a = "flate"
  THEN [st |-> flateWrite(c, p).st, core |-> flateWrite(c, p).core, gz |-> g, file |-> file]
  ELSE IF op = "Compress"
  THEN IF ~openOK THEN [st |-> "panic", core |-> c, gz |-> g, file |-> file]
       ELSE [st |-> flateWrite(c, p).st, core |-> flateWrite(c, p).core,
             gz |-> [g EXCEPT !.Crc = crcWrite(@, p), !.Size = @ + Len(p)],
             file |-> file \o p]
  ELSE IF ~g.IsHeaderParsed /\ Len(p) < 10
  THEN [st |-> "panic", core |-> c, gz |-> [g EXCEPT !.IsHeaderParsed = TRUE], file |-> file]
  ELSE LET q == IF ~g.IsHeaderParsed THEN Slice(p, 10, Len(p)) ELSE p
       IN [st |-> flateWrite(c, q).st, core |-> flateWrite(c, q).core,
           gz |-> [g EXCEPT !.IsHeaderParsed = TRUE, !.Trailer = trailerAfter(@, q)],
           file |-> file]

\* where the main goroutine goes when a step of processData ends
afterStep(st, okPc, message) ==
  /\ pc' = [pc EXCEPT !.main = IF st = "ok" THEN okPc ELSE "defer_w"]
  /\ pd' = IF st = "err" THEN Returned2(NilBytes, <<message>>) ELSE pd
  /\ panicking' = (panicking \/ st = "panic")
  /\ failed' = (failed \/ st # "ok")

\* writer.Write(inputData); opening com.o may fail
MainWrite ==
  /\ Running
  /\ pc.main = "write"
  /\ LET written(w) ==
           /\ core' = w.core
           /\ gz' = w.gz
           /\ comFile' = w.file
           /\ afterStep(w.st, "close", "failed to write data")
     IN \E openOK \in BOOLEAN :
          /\ openOK \/ (IsGzip /\ call.op = "Compress")
          /\ written(writerWrite(call.Algorithm, call.op, call.data, core, gz, comFile,
                                 openOK))
  /\ UNCHANGED <<call, link, prev, resultCh, errorCh, acc, closing, ret, outcome, created>>

(***************************************************************************)
(* writer.Close(), called once by processData and once more by its defer.  *)
(* The huffman, lzss and flate writers close in one step; the gzip writer  *)
(* starts the goroutine that closes the flate writer and goes on to copy.  *)
(***************************************************************************)
WriterClose ==
  /\ Running
  /\ pc.main \in {"close", "defer_w"}
  /\ LET closed(r) ==
           /\ core' = r.core
           /\ IF pc.main = "close"
              THEN afterStep(r.st, "select", "failed to close writer")
              ELSE /\ pc' = [pc EXCEPT !.main = "defer_r"]
                   /\ panicking' = (panicking \/ r.st = "panic")
                   /\ UNCHANGED <<pd, failed>>
           /\ UNCHANGED closing
     IN IF IsGzip
        THEN /\ pc' = [pc EXCEPT !.main = "copy", !.flate = "close"]
             /\ closing' = IF pc.main = "close" THEN 1 ELSE 2
             /\ UNCHANGED <<core, pd, panicking, failed>>
        ELSE IF call.Algorithm = "flate"
        THEN closed(flateClose(call.op, core, factoryBType(call.BType), call.BFinal))
        ELSE \E order \in IF call.Algorithm = "huffman" /\ call.op = "Compress"
                          THEN MapOrders(core.inputBuffer) ELSE {<<>>} :
               closed(textClose(call.Algorithm, call.op, core, order))
  /\ UNCHANGED <<call, link, prev, gz, resultCh, errorCh, acc, ret, outcome, created, comFile>>

\* the goroutine of the gzip writer's Close: FlateWriter.Close(), panic(err)
\* on an error; a panic in a goroutine ends the process
FlateClose ==
  /\ Running
  /\ pc.flate = "close"
  /\ LET closed(r) ==
           /\ core' = r.core
           /\ IF r.st = "ok"
              THEN /\ pc' = [pc EXCEPT !.flate = "done"]
                   /\ UNCHANGED <<outcome, failed>>
              ELSE /\ outcome' = "crashed"
                   /\ failed' = TRUE
                   /\ UNCHANGED pc
     IN closed(flateClose(call.op, core, factoryBType(call.BType), call.BFinal))
  /\ UNCHANGED <<call, link, prev, gz, resultCh, errorCh, acc, pd, panicking, closing,
                 ret, created, comFile>>

\* where the main goroutine goes when the gzip writer's Close returns
afterGzipClose(st) ==
  IF closing = 1
  THEN afterStep(st, "select", "failed to close writer")
  ELSE /\ pc' = [pc EXCEPT !.main = "defer_r"]
       /\ UNCHANGED <<pd, panicking, failed>>

\* what the reader goroutine holds after a Read of the pipe took chunk: the
\* gzip DecompressionReader counts and sums what it reads
pipeDeliver(chunk) ==
  /\ acc' = acc \o chunk
  /\ gz' = IF call.op = "Decompress"
           THEN [gz EXCEPT !.CurrentSize = @ + Len(chunk),
                           !.CurrentCrc = crcWrite(@, chunk)]
           ELSE gz

\* io.Copy(Writer, FlateReader) and FlateReader.Close() in the gzip writer's
\* Close: the flate reader blocks until the flate writer has closed, one
\* Write hands the bytes to the Read of the reader goroutine
GzipCopy ==
  /\ Running
  /\ pc.main = "copy"
  /\ core.isInputBufferClosed
  /\ IF core.outputBuffer = <<>>
     THEN /\ pc' = [pc EXCEPT !.main = IF call.op = "Compress" THEN "trailer" ELSE "pipeclose"]
          /\ UNCHANGED <<acc, gz, pd, panicking, failed>>
     ELSE IF gz.wclosed \/ gz.rclosed
     THEN /\ afterGzipClose("err")
          /\ UNCHANGED <<acc, gz>>
     ELSE /\ pc.reader = "read"
          /\ pipeDeliver(core.outputBuffer)
          /\ pc' = [pc EXCEPT !.main = IF call.op = "Compress" THEN "trailer" ELSE "pipeclose"]
          /\ UNCHANGED <<pd, panicking, failed>>
  /\ core' = IF core.outputBuffer # <<>> /\ (gz.wclosed \/ gz.rclosed)
             THEN [core EXCEPT !.outputBuffer = <<>>]
             ELSE [core EXCEPT !.outputBuffer = <<>>, !.inputBuffer = <<>>,
                               !.isInputBufferClosed = FALSE]
  /\ UNCHANGED <<call, link, prev, resultCh, errorCh, closing, ret, outcome, created, comFile>>

\* Writer.Write(trailer) of the gzip CompressionWriter; its error is dropped
GzipTrailer ==
  /\ Running
  /\ pc.main = "trailer"
  /\ IF gz.wclosed \/ gz.rclosed
     THEN UNCHANGED <<acc, gz>>
     ELSE /\ pc.reader = "read"
          /\ pipeDeliver(gzipTrailer(gz.Crc, gz.Size))
  /\ pc' = [pc EXCEPT !.main = "pipeclose"]
  /\ UNCHANGED <<call, link, prev, core, resultCh, errorCh, pd, panicking, closing, ret,
                 outcome, failed, created, comFile>>

\* Writer.Close() of the pipe, the last statement of the gzip writer's Close
GzipPipeClose ==
  /\ Running
  /\ pc.main = "pipeclose"
  /\ gz' = [gz EXCEPT !.wclosed = TRUE]
  /\ afterGzipClose("ok")
  /\ UNCHANGED <<call, link, prev, core, resultCh, errorCh, acc, closing, ret, outcome,
                 created, comFile>>

\* go Writer.Write(header[:]) of gzip NewCompressionReaderAndWriter: the
\* write takes the pipe when it gets to run, and fails on a closed pipe
HeaderWrite ==
  /\ Running
  /\ pc.header = "write"
  /\ IF gz.wclosed \/ gz.rclosed
     THEN UNCHANGED <<acc, gz>>
     ELSE /\ pc.reader = "read"
          /\ pipeDeliver(gzipHeader)
  /\ pc' = [pc EXCEPT !.header = "done"]
  /\ UNCHANGED <<call, link, prev, core, resultCh, errorCh, pd, panicking, closing, ret,
                 outcome, failed, created, comFile>>

\* the error of a huffman or lzss Read while the writer is open
notClosed(algorithm, op) ==
  IF algorithm = "huffman" THEN <<"input buffer not closed">>
  ELSE IF op = "Compress"
  THEN <<"compression failed because compression content upload has not been signaled as complete!">>
  ELSE <<"decompression failed because compression content upload has not been signaled as complete!">>

(***************************************************************************)
(* The reader goroutine of processData: io.ReadAll(reader), the send on    *)
(* errorCh or resultCh, then the deferred close(errorCh), close(resultCh). *)
(* The huffman and lzss readers fail while the writer is open, the flate   *)
(* reader waits for the writer to close, the gzip readers read the pipe    *)
(* until its writer closes.                                                *)
(***************************************************************************)
ReaderRead ==
  /\ Running
  /\ pc.reader = "read"
  /\ IF call.Algorithm \in {"huffman", "lzss"}
     THEN IF ~core.isInputBufferClosed
          THEN /\ errorCh' = [errorCh EXCEPT !.buf = <<notClosed(call.Algorithm, call.op)>>]
               /\ failed' = TRUE
               /\ UNCHANGED <<resultCh, core>>
          ELSE /\ resultCh' = [resultCh EXCEPT !.buf = <<Bytes(core.outputBuffer)>>]
               /\ core' = [core EXCEPT !.outputBuffer = <<>>]
               /\ UNCHANGED <<errorCh, failed>>
     ELSE IF call.Algorithm = "flate"
     THEN /\ core.isInputBufferClosed
          /\ resultCh' = [resultCh EXCEPT !.buf = <<Bytes(core.outputBuffer)>>]
          /\ core' = [core EXCEPT !.outputBuffer = <<>>]
          /\ UNCHANGED <<errorCh, failed>>
     ELSE /\ gz.wclosed \/ gz.rclosed
          /\ IF gz.rclosed
             THEN /\ errorCh' = [errorCh EXCEPT !.buf = <<<<"io: read/write on closed pipe">>>>]
                  /\ failed' = TRUE
                  /\ UNCHANGED resultCh
             ELSE /\ resultCh' = [resultCh EXCEPT !.buf = <<Bytes(acc)>>]
                  /\ UNCHANGED <<errorCh, failed>>
          /\ UNCHANGED core
  /\ pc' = [pc EXCEPT !.reader = "close_error"]
  /\ UNCHANGED <<call, link, prev, gz, acc, pd, panicking, closing, ret, outcome, created,
                 comFile>>

\* defer close(errorCh), the first of the goroutine's defers to run
ReaderCloseErrorCh ==
  /\ Running
  /\ pc.reader = "close_error"
  /\ errorCh' = [errorCh EXCEPT !.closed = TRUE]
  /\ pc' = [pc EXCEPT !.reader = "close_result"]
  /\ UNCHANGED <<call, link, prev, core, gz, resultCh, acc, pd, panicking, closing, ret,
                 outcome, failed, created, comFile>>

\* defer close(resultCh)
ReaderCloseResultCh ==
  /\ Running
  /\ pc.reader = "close_result"
  /\ resultCh' = [resultCh EXCEPT !.closed = TRUE]
  /\ pc' = [pc EXCEPT !.reader = "done"]
  /\ UNCHANGED <<call, link, prev, core, gz, errorCh, acc, pd, panicking, closing, ret,
                 outcome, failed, created, comFile>>

\* a receive can proceed on a channel that holds a value or is closed
Ready(ch) == ch.buf # <<>> \/ ch.closed

\* the select of processData and the return that follows it: any ready case
\* may be taken, a closed channel yields the zero value
MainSelect ==
  /\ Running
  /\ pc.main = "select"
  /\ \/ /\ Ready(errorCh)
        /\ LET err == IF errorCh.buf # <<>> THEN errorCh.buf[1] ELSE NoErr
           IN pd' = IF err # NoErr THEN Returned2(NilBytes, err)
                    ELSE Returned2(NilBytes, <<"unexpected error during processing">>)
        /\ errorCh' = [errorCh EXCEPT !.buf = <<>>]
        /\ UNCHANGED resultCh
     \/ /\ Ready(resultCh)
        /\ pd' = Returned2(IF resultCh.buf # <<>> THEN resultCh.buf[1] ELSE NilBytes, NoErr)
        /\ resultCh' = [resultCh EXCEPT !.buf = <<>>]
        /\ UNCHANGED errorCh
  /\ pc' = [pc EXCEPT !.main = "defer_w"]
  /\ UNCHANGED <<call, link, prev, core, gz, acc, panicking, closing, ret, outcome, failed,
                 created, comFile>>

\* gzip DecompressionReader.Close: the trailer against what was read
verifyTrailer(g) ==
  IF Len(g.Trailer) # 8 THEN <<"trailer data is not sufficient">>
  ELSE IF Uint32(Slice(g.Trailer, 4, 8)) # Bits32(g.CurrentSize) THEN <<"size did not match">>
  ELSE IF Uint32(Slice(g.Trailer, 0, 4)) # g.CurrentCrc THEN <<"crc did not match">>
  ELSE NoErr

\* defer reader.Close(): what it returns goes nowhere
DeferReaderClose ==
  /\ Running
  /\ pc.main = "defer_r"
  /\ core' = IF call.Algorithm \in {"huffman", "lzss"}
             THEN [core EXCEPT !.inputBuffer = <<>>]
             ELSE IF call.Algorithm = "flate"
             THEN [core EXCEPT !.inputBuffer = <<>>, !.isInputBufferClosed = FALSE]
             ELSE core
  /\ gz' = IF IsGzip /\ (call.op = "Compress" \/ verifyTrailer(gz) = NoErr)
           THEN [gz EXCEPT !.rclosed = TRUE]
           ELSE gz
  /\ pc' = [pc EXCEPT !.main = "return"]
  /\ UNCHANGED <<call, link, prev, resultCh, errorCh, acc, pd, panicking, closing, ret,
                 outcome, failed, created, comFile>>

\* the Stats of Compress and of Decompress; the ratio is kept as the
\* quotient the code computes, times 100
statsOf(op, data, processed, algorithm) ==
  [isNil |-> FALSE, OriginalSize |-> Len(data), ProcessedSize |-> Len(processed),
   CompressionRatio |-> IF Len(data) = 0 THEN [num |-> 0, den |-> 1]
                        ELSE IF op = "Compress"
                        THEN [num |-> Len(processed), den |-> Len(data)]
                        ELSE [num |-> Len(data), den |-> Len(processed)],
   Algorithm |-> algorithm]

\* processData returns, or its panic leaves the call; Compress and
\* Decompress wrap the error or build the Stats
Return ==
  /\ Running
  /\ pc.main = "return"
  /\ pc' = [pc EXCEPT !.main = "done"]
  /\ IF panicking
     THEN /\ outcome' = "panicked"
          /\ UNCHANGED ret
     ELSE /\ outcome' = "returned"
          /\ ret' = IF pd.err # NoErr
                    THEN Returned3(NilBytes, NilStats,
                                   <<IF call.op = "Compress" THEN "compression failed"
                                     ELSE "decompression failed">> \o pd.err)
                    ELSE Returned3(pd.data,
                                   statsOf(call.op, call.data, pd.data.bytes, call.Algorithm),
                                   NoErr)
  /\ UNCHANGED <<call, link, prev, core, gz, resultCh, errorCh, acc, pd, panicking, closing,
                 failed, created, comFile>>

\* a caller passes what Compress returned to Decompress
ThenDecompress ==
  /\ outcome = "returned"
  /\ link = "none"
  /\ call.op = "Compress"
  /\ ret.err = NoErr
  /\ prev' = [set |-> TRUE, call |-> call, ret |-> ret]
  /\ link' = "roundtrip"
  /\ call' = [call EXCEPT !.op = "Decompress", !.data = ret.data.bytes, !.kind = "roundtrip"]
  /\ Reset
  /\ UNCHANGED comFile

\* a caller makes the same call again
CallAgain ==
  /\ outcome = "returned"
  /\ link = "none"
  /\ prev' = [set |-> TRUE, call |-> call, ret |-> ret]
  /\ link' = "repeat"
  /\ call' = call
  /\ Reset
  /\ UNCHANGED comFile

Next ==
  \/ Entry
  \/ MainWrite
  \/ WriterClose
  \/ FlateClose
  \/ GzipCopy
  \/ GzipTrailer
  \/ GzipPipeClose
  \/ HeaderWrite
  \/ ReaderRead
  \/ ReaderCloseErrorCh
  \/ ReaderCloseResultCh
  \/ MainSelect
  \/ DeferReaderClose
  \/ Return
  \/ ThenDecompress
  \/ CallAgain

Spec == Init /\ [][Next]_vars

(***************************************************************************)
(* The units of the codecs on their own.  A unit call names a function of  *)
(* the codecs and its input; ret holds what the function returned.  The    *)
(* variables of processData stay as they are before a call.                *)
(***************************************************************************)
PairReps == 5

\* one or two letters, repeated: "AB", "ABAB", ... "ABABABABAB"
TokenInputs ==
  {Repeat(p, n) : p \in SeqsUpTo({65, 66}, 2) \ {<<>>}, n \in 1..PairReps}

UnitCall(fn, input) == [op |-> fn, data |-> input]

LzssLen == 8

hello == <<60, 104, 101, 108, 108, 111, 62>>

\* "<hello>", and every text of '<' and ',' up to LzssLen bytes
LzssInputs == {hello} \cup SeqsUpTo({Opening, Separator}, LzssLen)

ZeroRunMax == 139

SameRunMax == 7

Zeros(n) == [k \in 1..n |-> 0]

\* code length vectors: a run of zeros alone, after a length, before a
\* length or between two, and runs of one non-zero length
RleInputs ==
  {pre \o Zeros(n) \o post :
     n \in 0..ZeroRunMax, pre \in {<<>>, <<3>>}, post \in {<<>>, <<3>>, <<4>>}}
  \cup {[k \in 1..n |-> v] : n \in 1..SameRunMax, v \in {1, 4}}

SymbolCount == 5

FreqMax == 3

LengthLimits == {2, 15}

\* the frequency vectors on SymbolCount symbols, with a length limit
FreqInputs ==
  {[symbolFreq |-> f, lengthLimit |-> l] :
     f \in [0..(SymbolCount - 1) -> 0..FreqMax], l \in LengthLimits}

WriteCount == 3

FieldWidths == {1, 7, 26, 32}

\* a field's values: zero, the top bit of the field alone, and 31 one bits
FieldValues(nbits) == {0, Pow2(Min2(nbits, 31) - 1), (Pow2(30) - 1) + Pow2(30)}

\* up to WriteCount writes <<value, nbits>>
BitWrites ==
  SeqsUpTo(UNION {{<<v, n>> : v \in FieldValues(n)} : n \in FieldWidths}, WriteCount)
    \ {<<>>}

WindowLen == 4

PatternLen == 3

\* a search buffer and a pattern of at least one rune, over two letters
KmpInputs ==
  {[searchBuffer |-> w, pattern |-> p] :
     w \in SeqsUpTo({65, 66}, WindowLen), p \in SeqsUpTo({65, 66}, PatternLen) \ {<<>>}}

MatchReps == 3

\* one or two letters repeated up to MatchReps times, for the consumer of
\* flate (tokeniseLZSS) and the one of lzss (compress)
MatchInputs ==
  {[content |-> Repeat(p, n), consumer |-> c] :
     p \in SeqsUpTo({65, 66}, 2) \ {<<>>}, n \in 1..MatchReps,
     c \in {"tokeniseLZSS", "compress"}}

\* the distances at which the distance code changes, and the two ends
DistanceSamples ==
  {d \in UNION {{distAlphabets(i).Base - 1, distAlphabets(i).Base} : i \in 0..29}
         \cup {maxAllowedBackwardDistance} : d >= 1}

\* the Match tokens tokeniseLZSS can make: every length with the largest
\* distance, and the shortest length with the sampled distances
MatchTokens ==
  {Token(MatchToken, 0, l, maxAllowedBackwardDistance) : l \in 3..maxAllowedMatchLength}
  \cup {Token(MatchToken, 0, 3, d) : d \in DistanceSamples \ {1, 2}}

CondensedLen == 8

\* code-length vectors of one length followed by a run of zeros or of the
\* same length, read back as HLIT + HDIST lengths, the whole vector or less
CondensedInputs ==
  {[lengths |-> <<3>> \o [k \in 1..n |-> x], HLIT |-> h, HDIST |-> d] :
     x \in {0, 3}, n \in 0..CondensedLen, h \in 1..2, d \in 1..CondensedLen}

LiteralRun == 3

\* up to LiteralRun literals 'A' followed by one Match token of length 3 or 4
\* at a distance up to 4: the distance may reach before the first literal and
\* the length may exceed the distance
BlockTokens ==
  {[j \in 1..k |-> Token(LiteralToken, 65, 0, 0)] \o <<Token(MatchToken, 0, l, d)>> :
     k \in 0..LiteralRun, l \in 3..4, d \in 1..4}

MapSize == 3

\* the symbols '1', 'a', '|', backslash and newline
HeaderSymbols == {49, 97, 124, 92, 10}

\* the maps of up to MapSize symbols to frequencies of one or two digits,
\* with every order in which compress may list their pairs
HeaderInputs ==
  UNION {{[symbolFreq |-> f, order |-> o] : f \in [S -> {1, 12}], o \in PermSeqs(S)} :
           S \in {T \in SUBSET HeaderSymbols : Cardinality(T) \in 1..MapSize}}

HuffLen == 3

\* the texts of one to HuffLen letters over 'a', 'b', 'c'
HuffInputs == SeqsUpTo({97, 98, 99}, HuffLen) \ {<<>>}

GzipLen == 20

\* a GZIP input of GzipLen distinct bytes
GzipInput == [k \in 1..GzipLen |-> k]

\* the input cut after its a-th and its b-th byte into successive chunks,
\* the empty ones left out
SplitInputs ==
  UNION {{SelectSeq(<<SubSeq(GzipInput, 1, a), SubSeq(GzipInput, a + 1, b),
                      SubSeq(GzipInput, b + 1, GzipLen)>>, LAMBDA p : p # <<>>) :
            b \in a..GzipLen} : a \in 1..GzipLen}

\* the unit calls: a function with one of its inputs
UnitCalls(fn, inputs) == {UnitCall(fn, b) : b \in inputs}

UnitInit ==
  /\ \/ call \in UnitCalls("tokeniseLZSS", TokenInputs)
     \/ call \in UnitCalls("lzssCompress", LzssInputs)
     \/ call \in UnitCalls("FindCode", RleInputs)
     \/ call \in UnitCalls("BuildCanonicalHuffmanEncoder", FreqInputs)
     \/ call \in UnitCalls("writeCompressedContent", BitWrites)
     \/ call \in UnitCalls("kmp", KmpInputs)
     \/ call \in UnitCalls("FindMatch", MatchInputs)
     \/ call \in UnitCalls("Encode", MatchTokens)
     \/ call \in UnitCalls("compress", TokenInputs)
     \/ call \in {c \in UnitCalls("ReadCondensedHuffman", CondensedInputs) : c.data.HLIT + c.data.HDIST <= Len(c.data.lengths)}
     \/ call \in UnitCalls("DecodeTokens", BlockTokens)
     \/ call \in UnitCalls("decompress", HeaderInputs)
     \/ call \in UnitCalls("encode", HuffInputs)
     \/ call \in UnitCalls("Write", SplitInputs)
  /\ link = "none"
  /\ prev = NoReturn
  /\ comFile = <<>>
  /\ Fresh

\* what a unit call leaves alone
unitFrame ==
  <<call, link, prev, pc, core, gz, resultCh, errorCh, acc, pd, panicking, closing,
    outcome, failed, created, comFile>>

\* CompressionWriter.compress up to the tokens, and the bytes DecodeTokens
\* makes of them
tokensOf(content) ==
  LET decoded(tokens) ==
        [tokens |-> tokens,
         decoded |-> IF tokens.st = "ok" THEN DecodeTokens(tokens.val) ELSE tokens]
  IN decoded(tokeniseLZSS(FindMatch(Runes(content), maxAllowedBackwardDistance,
                                    maxAllowedMatchLength)))

ApplyTokenise ==
  /\ call.op = "tokeniseLZSS"
  /\ ~ret.set
  /\ ret' = [set |-> TRUE, val |-> tokensOf(call.data)]
  /\ UNCHANGED unitFrame

\* the consumer loop of compress, item by item: what it writes for the
\* reference of index n - 1, and whether that is a back-reference
RECURSIVE lzssItems(_, _, _)
lzssItems(refs, n, nextRunesToIgnore) ==
  IF n > Len(refs) THEN <<>>
  ELSE LET ref == refs[n]
           item(isRef, text) == [isRef |-> isRef, at |-> n - 1, text |-> text]
       IN IF nextRunesToIgnore > 0 THEN lzssItems(refs, n + 1, nextRunesToIgnore - 1)
          ELSE IF ref.IsRef
          THEN LET encoding == getSymbolEncoded(ref.NegativeOffset, ref.Size)
               IN IF Len(encoding) < ref.Size
                  THEN <<item(TRUE, encoding)>> \o lzssItems(refs, n + 1, ref.Size - 1)
                  ELSE <<item(FALSE, <<ref.Value[1]>>)>> \o lzssItems(refs, n + 1, 0)
          ELSE <<item(FALSE, ref.Value)>> \o lzssItems(refs, n + 1, 0)

\* compress, what it wrote item by item, and decompress of its output
lzssCodec(content) ==
  LET escaped == escapeConflictingSymbols(Runes(content))
      result(out) ==
        [out |-> out, escaped |-> escaped,
         items |-> lzssItems(FindMatch(escaped, 4096, Min2(4096, 4096)), 1, 0),
         decoded |-> lzssDecompress(out)]
  IN result(lzssCompress(content, 4096, Min2(4096, 4096)))

ApplyLzss ==
  /\ call.op = "lzssCompress"
  /\ ~ret.set
  /\ ret' = [set |-> TRUE, val |-> lzssCodec(call.data)]
  /\ UNCHANGED unitFrame

ApplyFindCode ==
  /\ call.op = "FindCode"
  /\ ~ret.set
  /\ ret' = [set |-> TRUE, val |-> rleFindCode(call.data)]
  /\ UNCHANGED unitFrame

\* the code of a table entry as the encoder writes it, read back through
\* the decoder's tree
decodeCode(huff, root) ==
  LET read(w) == TraverseHuffmanTree([bb |-> NewBitBuffer, input |-> w.val.out], root)
  IN read(flushAlign(writeAll([bb |-> NewBitBuffer, out |-> <<>>], <<codeWrite(huff)>>)))

\* the encoder's table, the decoder built from its lengths alone, and what
\* the decoder makes of every code of the table
encoderAndDecoder(symbolFreq, lengthLimit) ==
  LET decoded(table, root) ==
        [table |-> table, root |-> root,
         decoded |-> IF root.st # "ok" THEN <<>>
                     ELSE [sym \in DOMAIN table.val |->
                             IF table.val[sym].isNil THEN RErr(<<>>)
                             ELSE decodeCode(table.val[sym], root.val)]]
      ofTable(table) ==
        IF table.st # "ok" THEN [table |-> table, root |-> table, decoded |-> <<>>]
        ELSE decoded(table,
               BuildCanonicalHuffmanDecoder(
                 [k \in 1..Cardinality(DOMAIN table.val) |-> table.val[k - 1].Length]))
  IN ofTable(BuildCanonicalHuffmanEncoder(symbolFreq, lengthLimit))

ApplyEncoder ==
  /\ call.op = "BuildCanonicalHuffmanEncoder"
  /\ ~ret.set
  /\ ret' = [set |-> TRUE,
             val |-> encoderAndDecoder(call.data.symbolFreq, call.data.lengthLimit)]
  /\ UNCHANGED unitFrame

\* readCompressedContent(nbits) for the fields i.. of the writes, in order,
\* up to the first read that fails
RECURSIVE readFields(_, _, _)
readFields(r, writes, i) ==
  IF i > Len(writes) THEN <<>>
  ELSE LET next(f) ==
             <<[e |-> f.e, v |-> f.v]>>
               \o (IF f.e = "ok" THEN readFields(f.r, writes, i + 1) ELSE <<>>)
       IN next(readCompressedContent(r, writes[i][2]))

\* the writes followed by flushAlign, and the reads of the bytes written
bitsCodec(writes) ==
  LET read(w) ==
        [written |-> w,
         reads |-> IF w.st = "ok"
                   THEN readFields([bb |-> NewBitBuffer, input |-> w.val.out], writes, 1)
                   ELSE <<>>]
  IN read(flushAlign(writeAll([bb |-> NewBitBuffer, out |-> <<>>], writes)))

ApplyBits ==
  /\ call.op = "writeCompressedContent"
  /\ ~ret.set
  /\ ret' = [set |-> TRUE, val |-> bitsCodec(call.data)]
  /\ UNCHANGED unitFrame

\* kmp on a search buffer and a pattern, and the Reference matchSearchBuffer
\* sends for them
ApplyKmp ==
  /\ call.op = "kmp"
  /\ ~ret.set
  /\ ret' = [set |-> TRUE,
             val |-> [m |-> kmp(call.data.searchBuffer, call.data.pattern),
                      ref |-> matchSearchBuffer(call.data.searchBuffer,
                                                <<Head(call.data.pattern)>>,
                                                Tail(call.data.pattern))]]
  /\ UNCHANGED unitFrame

\* the References FindMatch's workers compute for a call, by position: flate
\* searches the runes of the content, lzss the escaped runes
refsOf(data) ==
  IF data.consumer = "tokeniseLZSS"
  THEN FindMatch(Runes(data.content), maxAllowedBackwardDistance, maxAllowedMatchLength)
  ELSE FindMatch(escapeConflictingSymbols(Runes(data.content)), 4096, Min2(4096, 4096))

\* every worker sends on the first channel
channelShared(i) == 1

\* the worker of position i sends on refChannels[i]
channelOf(i) == i

\* FindMatch returns: one channel of capacity 1 per position, one worker per
\* position started
StartFindMatch ==
  /\ call.op = "FindMatch"
  /\ ret = [set |-> FALSE]
  /\ ret' = [set |-> FALSE,
             refChannels |-> [n \in 1..Len(refsOf(call.data)) |-> <<>>],
             sent |-> {},
             got |-> <<>>]
  /\ UNCHANGED unitFrame

\* a worker finishes its search and sends its Reference; workers finish in
\* any order
WorkerSend ==
  /\ call.op = "FindMatch"
  /\ ~ret.set
  /\ ret # [set |-> FALSE]
  /\ \E i \in (1..Len(ret.refChannels)) \ ret.sent :
       /\ Len(ret.refChannels[channelOf(i)]) < 1
       /\ ret' = [ret EXCEPT !.refChannels[channelOf(i)] = Append(@, refsOf(call.data)[i]),
                             !.sent = @ \cup {i}]
  /\ UNCHANGED unitFrame

\* the consumer's `ref := <-channel` on the next channel of refChannels
ConsumerReceive ==
  /\ call.op = "FindMatch"
  /\ ~ret.set
  /\ ret # [set |-> FALSE]
  /\ Len(ret.got) < Len(ret.refChannels)
  /\ ret.refChannels[Len(ret.got) + 1] # <<>>
  /\ ret' = [ret EXCEPT !.refChannels[Len(ret.got) + 1] = Tail(@),
                        !.got = Append(@, Head(ret.refChannels[Len(ret.got) + 1]))]
  /\ UNCHANGED unitFrame

\* what the consumer makes of the References it handled, in the order it
\* handled them
consumed(consumer, refs) ==
  IF consumer = "tokeniseLZSS" THEN tokeniseLZSS(refs) ELSE Ok(Utf8Seq(lzssEmit(refs, 1, 0)))

\* the consumer's loop is over: it returns
ConsumerReturn ==
  /\ call.op = "FindMatch"
  /\ ~ret.set
  /\ ret # [set |-> FALSE]
  /\ Len(ret.got) = Len(ret.refChannels)
  /\ ret' = [ret EXCEPT !.set = TRUE]
  /\ UNCHANGED unitFrame

\* LitLengthCode.Encode and DistanceCode.Encode on one Match token: the
\* LengthCode, LengthOffset, DistanceCode and DistanceOffset they give it
ApplyEncode ==
  /\ call.op = "Encode"
  /\ ~ret.set
  /\ ret' = [set |-> TRUE,
             val |-> [length |-> lenFindCode(call.data.Length),
                      distance |-> distFindCode(call.data.Distance)]]
  /\ UNCHANGED unitFrame

\* the code-length vector an Encode returns: Ok(lengths), Err or Panic
lengthsOf(encoded) == IF encoded.st = "ok" THEN Ok(encoded.val.Lengths) ELSE encoded

\* CompressionWriter.compress up to HLIT and HDIST: the tokens, and the
\* code-length vectors LitLengthCode.Encode and DistanceCode.Encode return
lengthVectors(content) ==
  LET ofTokens(tokens) ==
        [tokens |-> tokens,
         litLen |-> IF tokens.st = "ok" THEN lengthsOf(litLenEncode(tokens.val)) ELSE tokens,
         dist |-> IF tokens.st = "ok" THEN lengthsOf(distEncode(tokens.val)) ELSE tokens]
  IN ofTokens(tokeniseLZSS(FindMatch(Runes(content), maxAllowedBackwardDistance,
                                     maxAllowedMatchLength)))

ApplyCompress ==
  /\ call.op = "compress"
  /\ ~ret.set
  /\ ret' = [set |-> TRUE, val |-> lengthVectors(call.data)]
  /\ UNCHANGED unitFrame

\* the code-length symbols CodeLengthCode.Encode makes of a vector, written
\* as compress writes them and read back by ReadCondensedHuffman for HLIT and
\* HDIST lengths: the lengths the symbols read expand to, and what is returned
condensedCodec(lengths, HLIT, HDIST) ==
  LET read(r, root) ==
        [expanded |-> condensedLoop(r, root.val, HLIT + HDIST, <<>>),
         read |-> ReadCondensedHuffman(r, root.val, HLIT, HDIST)]
      ofWritten(cl, w) ==
        read([bb |-> NewBitBuffer, input |-> w.val.out],
             BuildCanonicalHuffmanDecoder(
               [k \in 1..Cardinality(DOMAIN cl.CondensedHuffman) |->
                  cl.CondensedHuffman[k - 1].Length]))
      ofEncoded(cl) ==
        ofWritten(cl, flushAlign(writeAll([bb |-> NewBitBuffer, out |-> <<>>],
                                          condensedWrites(cl.Condensed, cl.CondensedHuffman))))
  IN ofEncoded(rleEncode(lengths).val)

ApplyReadCondensed ==
  /\ call.op = "ReadCondensedHuffman"
  /\ ~ret.set
  /\ ret' = [set |-> TRUE,
             val |-> condensedCodec(call.data.lengths, call.data.HLIT, call.data.HDIST)]
  /\ UNCHANGED unitFrame

\* the tokens of a block written as compress writes them (the codes of
\* LitLengthCode.Encode and DistanceCode.Encode, the end-of-block code last),
\* read back by ReadTokens and expanded by DecodeTokens
tokenCodec(tokens) ==
  LET decoded(read) ==
        [read |-> [e |-> read.e, v |-> read.v],
         decoded |-> IF read.e = "ok" THEN DecodeTokens(read.v) ELSE Err("not read")]
      ofWritten(ll, dc, w) ==
        decoded(ReadTokens([bb |-> NewBitBuffer, input |-> w.val.out],
                           BuildCanonicalHuffmanDecoder(ll.Lengths).val,
                           BuildCanonicalHuffmanDecoder(dc.Lengths).val))
      ofDistances(ll, dc) ==
        ofWritten(ll, dc,
          flushAlign(writeAll([bb |-> NewBitBuffer, out |-> <<>>],
                              tokenWrites(dc.Tokens, ll.LitLengthHuffman, dc.DistanceHuffman)
                                \o <<codeWrite(ll.LitLengthHuffman[256])>>)))
      ofLiterals(ll) == ofDistances(ll, distEncode(ll.Tokens).val)
  IN ofLiterals(litLenEncode(tokens).val)

ApplyDecodeTokens ==
  /\ call.op = "DecodeTokens"
  /\ ~ret.set
  /\ ret' = [set |-> TRUE, val |-> tokenCodec(call.data)]
  /\ UNCHANGED unitFrame

\* the header compress writes for a map, followed by the terminator and the
\* padding byte, as the header loop of decompress parses it
headerCodec(symbolFreq, order) ==
  parseHeader(Runes(SplitN2(headerFor(symbolFreq, order) \o <<92, 10, 0>>)[1]), 0, <<>>)

ApplyDecompress ==
  /\ call.op = "decompress"
  /\ ~ret.set
  /\ ret' = [set |-> TRUE, val |-> headerCodec(call.data.symbolFreq, call.data.order)]
  /\ UNCHANGED unitFrame

\* compress(content) for one order of the map iteration: its output, and the
\* code bits of the content that encode concatenates
encoded(content, order) ==
  LET ofTree(tree) ==
        [out |-> encode(tree, Runes(content), headerFor(SymbolFreqOf(Runes(content)), order)),
         output |-> encodeSymbols(getSymbolEncoding(tree, <<>>), Runes(content))]
  IN ofTree(buildTree(SymbolFreqOf(Runes(content))))

ApplyHuffmanEncode ==
  /\ call.op = "encode"
  /\ ~ret.set
  /\ \E order \in MapOrders(call.data) :
       ret' = [set |-> TRUE, val |-> encoded(call.data, order)]
  /\ UNCHANGED unitFrame

\* successive calls of the gzip DecompressionWriter's Write, up to the first
\* one that does not return nil: [st, core, gz, file]
RECURSIVE writeChunks(_, _)
writeChunks(chunks, w) ==
  IF chunks = <<>> \/ w.st # "ok" THEN w
  ELSE writeChunks(Tail(chunks),
                   writerWrite("gzip", "Decompress", Head(chunks), w.core, w.gz, w.file, TRUE))

ApplyWrite ==
  /\ call.op = "Write"
  /\ ~ret.set
  /\ ret' = [set |-> TRUE,
             val |-> writeChunks(call.data,
                                 [st |-> "ok", core |-> NewCore, gz |-> NewGzip, file |-> <<>>])]
  /\ UNCHANGED unitFrame

UnitNext ==
  \/ ApplyTokenise
  \/ ApplyEncoder
  \/ ApplyFindCode
  \/ ApplyLzss
  \/ ApplyBits
  \/ ApplyKmp
  \/ StartFindMatch
  \/ WorkerSend
  \/ ConsumerReceive
  \/ ConsumerReturn
  \/ ApplyEncode
  \/ ApplyCompress
  \/ ApplyReadCondensed
  \/ ApplyDecodeTokens
  \/ ApplyDecompress
  \/ ApplyHuffmanEncode
  \/ ApplyWrite

UnitSpec == UnitInit /\ [][UnitNext]_vars

(***************************************************************************)
(* The properties.                                                         *)
(***************************************************************************)
Ended == outcome # "running"

ReturnedNoError == outcome = "returned" /\ ret.err = NoErr

\* a valid Compress call on an input the caller chose, not a repetition
FirstCompress ==
  call.op = "Compress" /\ link = "none" /\ IsValidAlgorithm(call.Algorithm)

\* one byte, or n > 1 copies of one byte
IsRun(b) == Len(b) >= 1 /\ \A k \in 1..Len(b) : b[k] = b[1]

\* C1: for each of the four algorithms and every input B, Compress returns
\* without error and Decompress of what it returned returns exactly B
\* without error.
C1_RoundTrip ==
  /\ (FirstCompress /\ Ended) => ReturnedNoError
  /\ (link = "roundtrip" /\ Ended) =>
       (ReturnedNoError /\ ~ret.data.isNil /\ ret.data.bytes = prev.call.data)

\* C2: for each of the four algorithms Compress of the empty input succeeds
\* and Decompress of its output returns the empty input.
C2_EmptyRoundTrip ==
  /\ (FirstCompress /\ call.data = <<>> /\ Ended) => ReturnedNoError
  /\ (link = "roundtrip" /\ prev.call.data = <<>> /\ Ended) =>
       (ReturnedNoError /\ ret.data.bytes = <<>>)

\* C3: an input of one byte, and an input of n > 1 copies of one byte, round
\* trip exactly: the decoded output has n bytes, all equal to that byte.
C3_RunRoundTrip ==
  /\ (FirstCompress /\ IsRun(call.data) /\ Ended) => ReturnedNoError
  /\ (link = "roundtrip" /\ IsRun(prev.call.data) /\ Ended) =>
       /\ ReturnedNoError
       /\ Len(ret.data.bytes) = Len(prev.call.data)
       /\ ret.data.bytes = prev.call.data

\* C4: Decompress with gzip of a member whose trailer CRC32 or ISIZE does not
\* match the decoded data returns an error and no output bytes: the call
\* returns, with an error and nil data, and processData hands no data back.
C4_TrailerMismatch ==
  (call.op = "Decompress" /\ IsGzip /\ call.kind \in {"badcrc", "badsize"}) =>
    /\ pd.set => (pd.err # NoErr /\ pd.data.isNil)
    /\ Ended => (outcome = "returned" /\ ret.err # NoErr /\ ret.data.isNil)

\* C5: whenever a step of a call has failed (a Read of the reader, a Write or
\* the Close of the writer, the inner DEFLATE codec under gzip) what the call
\* returns is a non-nil error and no data, never a nil error.
C5_FailureIsReported ==
  (failed /\ outcome = "returned") => (ret.err # NoErr /\ ret.data.isNil)

\* C6: no call panics and no call crashes the process (so that every call can
\* return once its deferred Close calls have run).
C6_NoCrash == outcome \notin {"panicked", "crashed"}

\* C7: a call with an algorithm name outside the four supported ones returns
\* an error with neither data nor stats and creates no reader and no writer;
\* IsValidAlgorithm is true exactly for huffman, lzss, flate and gzip.
C7_InvalidAlgorithm ==
  /\ \A name \in AlgorithmNames :
       IsValidAlgorithm(name) <=> name \in {"huffman", "lzss", "flate", "gzip"}
  /\ call.Algorithm \notin {"huffman", "lzss", "flate", "gzip"} =>
       /\ created = 0
       /\ pc.reader = "none" /\ pc.header = "none" /\ pc.flate = "none"
       /\ Ended => /\ outcome = "returned"
                   /\ ret.err # NoErr
                   /\ ret.data.isNil
                   /\ ret.stats.isNil

C7_Witness ==
  /\ call.Algorithm \notin {"huffman", "lzss", "flate", "gzip"}
  /\ outcome = "returned"
  /\ ret.err = <<"unsupported algorithm">>
  /\ created = 0

\* the member RFC 1952 asks for: the fixed header, the deflate stream of the
\* input, CRC32 and ISIZE of the input
memberOf(r, data) == r.st = "ok" /\ pd.data.bytes = gzipMember(r.val.out, data)

\* C8: the bytes processData collects from a gzip Compress are the fixed
\* ten-byte header, the deflate stream, CRC32 and ISIZE little-endian, in
\* that order, whichever way the header goroutine, the closing writer and
\* the reader interleave.
C8_GzipLayout ==
  (call.op = "Compress" /\ IsGzip /\ pd.set /\ pd.err = NoErr) =>
    /\ ~pd.data.isNil
    /\ memberOf(flateCompress(call.data, NewBitBuffer, factoryBType(call.BType),
                              call.BFinal), call.data)

\* C9: Compress is a function of its arguments: a second call with the same
\* input and options returns what the first returned.
C9_Deterministic ==
  (link = "repeat" /\ call.op = "Compress" /\ Ended) =>
    (outcome = "returned" /\ ret = prev.ret)

\* C10: a call changes no state that outlives it: the file com.o, the one
\* thing in the model another call can see, is never written.
C10_NoSharedState == [][comFile' = comFile]_vars

Applied(fn) == call.op = fn /\ ret.set

ABABABABAB == <<65, 66, 65, 66, 65, 66, 65, 66, 65, 66>>

\* C11: the tokens of "ABABABABAB" are Lit('A'), Lit('B') and
\* Match(length 8, distance 2), and decoding the tokens gives the input back.
C11_Tokenisation ==
  (Applied("tokeniseLZSS") /\ call.data = ABABABABAB) =>
    /\ ret.val.tokens =
         Ok(<<Token(LiteralToken, 65, 0, 0), Token(LiteralToken, 66, 0, 0),
              Token(MatchToken, 0, 8, 2)>>)
    /\ ret.val.decoded = Ok(call.data)

\* where item j of the items starts in the output
RECURSIVE startOf(_, _)
startOf(items, j) == IF j <= 1 THEN 0 ELSE startOf(items, j - 1) + Len(items[j - 1].text)

RECURSIVE textOf(_)
textOf(items) == IF items = <<>> THEN <<>> ELSE Head(items).text \o textOf(Tail(items))

\* an index of the text that is data behind an escape backslash
IsEscapedAt(text, i) == countEscapesInReverse(text, i - 1) % 2 = 1

Contains(text, part) ==
  \E i \in 0..(Len(text) - Len(part)) : Slice(text, i, i + Len(part)) = part

\* C12: in an LZSS output every reserved character that is literal data comes
\* right after an escape backslash, the unescaped '<' are exactly the
\* back-references the encoder wrote, decompression gives the input back,
\* and the output for "<hello>" contains \<hello\>.
C12_Escapes ==
  Applied("lzssCompress") =>
    LET items == ret.val.items
        out == Runes(ret.val.out)
    IN /\ out = textOf(items)
       /\ \A j \in 1..Len(items) :
            (~items[j].isRef /\ items[j].text[1] \in conflictingLiterals
               /\ IsEscapedAt(ret.val.escaped, items[j].at))
              => (startOf(items, j) > 0 /\ At(out, startOf(items, j) - 1) = Escape)
       /\ {i \in 0..(Len(out) - 1) : At(out, i) = Opening /\ ~IsEscapedAt(out, i)}
            = {startOf(items, j) : j \in {k \in 1..Len(items) : items[k].isRef}}
       /\ ret.val.decoded = Ok(call.data)
       /\ call.data = hello =>
            Contains(out, <<Escape, Opening, 104, 101, 108, 108, 111, Escape, Closing>>)

\* the items the claim gives for a run of n zeros
RECURSIVE zeroItems(_)
zeroItems(n) ==
  IF n <= 2 THEN [k \in 1..n |-> RLE(0, 0)]
  ELSE IF n <= 10 THEN <<RLE(17, n - 3)>>
  ELSE IF n <= 138 THEN <<RLE(18, n - 11)>>
  ELSE <<RLE(18, 127)>> \o zeroItems(n - 138)

literalItems(lengths) == [k \in 1..Len(lengths) |-> RLE(lengths[k], 0)]

\* C13: FindCode turns a run of n zeros into n literal zeros (n <= 2), one
\* code 17 with offset n - 3 (3 <= n <= 10), one code 18 with offset n - 11
\* (11 <= n <= 138), code 18 with offset 127 and a literal 0 for 139 zeros,
\* whatever single length stands before or after the run; 5 repeats of a
\* non-zero v give v and one code 16 with offset 1.
C13_RunLengths ==
  Applied("FindCode") =>
    /\ \A n \in 0..Len(call.data), pre \in {<<>>, <<3>>}, post \in {<<>>, <<3>>, <<4>>} :
         call.data = pre \o Zeros(n) \o post =>
           ret.val = Ok(literalItems(pre) \o zeroItems(n) \o literalItems(post))
    /\ \A v \in {1, 4} :
         call.data = <<v, v, v, v, v>> => ret.val = Ok(<<RLE(v, 0), RLE(16, 1)>>)

C13_Witness ==
  /\ Applied("FindCode")
  /\ call.data = Zeros(139)
  /\ ret.val = Ok(<<RLE(18, 127), RLE(0, 0)>>)

\* a table was returned for the frequency vector of the call
TableBuilt == Applied("BuildCanonicalHuffmanEncoder") /\ ret.val.table.st = "ok"

Coded(table) == {sym \in DOMAIN table : ~table[sym].isNil}

\* C14: the decoder built from the lengths of the encoder's table decodes the
\* reversed code of every coded symbol, read bit by bit, to that symbol.
C14_DecoderInverts ==
  TableBuilt =>
    /\ ret.val.root.st = "ok"
    /\ \A sym \in Coded(ret.val.table.val) :
         ret.val.decoded[sym].e = "ok" /\ ret.val.decoded[sym].v = sym

C14_Witness ==
  /\ TableBuilt
  /\ Cardinality(Coded(ret.val.table.val)) = SymbolCount
  /\ \E sym \in Coded(ret.val.table.val) : ret.val.table.val[sym].Length = 3
  /\ \A sym \in Coded(ret.val.table.val) : ret.val.decoded[sym].v = sym

\* the first code of each length as the claim gives it: 0 at length 1, then
\* (first code + number of codes of the length before) shifted left by one
RECURSIVE firstCode(_, _)
firstCode(table, l) ==
  IF l <= 1 THEN 0
  ELSE 2 * (firstCode(table, l - 1)
            + Cardinality({sym \in Coded(table) : table[sym].Length = l - 1}))

\* C15: the symbols of one length have consecutive codes in ascending symbol
\* order, and each length starts at (last code of the length before + 1)
\* shifted left by one, from code 0 at length 1.
C15_CanonicalCodes ==
  TableBuilt =>
    LET table == ret.val.table.val
    IN \A sym \in Coded(table) :
         table[sym].Code =
           firstCode(table, table[sym].Length)
             + Cardinality({t \in Coded(table) :
                              t < sym /\ table[t].Length = table[sym].Length})

C15_Witness ==
  /\ TableBuilt
  /\ \E s1, s2 \in Coded(ret.val.table.val) :
       /\ s1 < s2
       /\ ret.val.table.val[s1].Length = 3
       /\ ret.val.table.val[s2].Length = 3
       /\ ret.val.table.val[s2].Code = ret.val.table.val[s1].Code + 1
  /\ \E s3 \in Coded(ret.val.table.val) : ret.val.table.val[s3].Length = 2

\* the Kraft sum of a table in units of 2^(-limit)
RECURSIVE KraftOver(_, _, _)
KraftOver(table, S, limit) ==
  IF S = {} THEN 0
  ELSE LET sym == CHOOSE y \in S : TRUE
       IN Pow2(limit - table[sym].Length) + KraftOver(table, S \ {sym}, limit)

KraftSum(table, limit) == KraftOver(table, Coded(table), limit)

\* C16: the Kraft sum of every table is at most 1, and it is 1 when the
\* frequency tree has at least two leaves.
C16_Kraft ==
  TableBuilt =>
    LET table == ret.val.table.val
        limit == call.data.lengthLimit
        leaves == {sym \in DOMAIN call.data.symbolFreq : call.data.symbolFreq[sym] > 0}
    IN /\ \A sym \in Coded(table) : table[sym].Length \in 1..limit
       /\ KraftSum(table, limit) <= Pow2(limit)
       /\ Cardinality(leaves) >= 2 => KraftSum(table, limit) = Pow2(limit)

C16_Witness ==
  /\ TableBuilt
  /\ Cardinality(Coded(ret.val.table.val)) = 3
  /\ KraftSum(ret.val.table.val, call.data.lengthLimit) = Pow2(call.data.lengthLimit)

\* the 2-bit BTYPE field of a deflate stream: bits 1 and 2 of its first byte
BTypeOf(stream) == (stream[1] \div 2) % 4

\* C17: Decompress with flate of a block whose BTYPE field is 0, 1 or 3
\* returns an error and no output.
C17_InvalidBlockType ==
  (call.op = "Decompress" /\ call.Algorithm = "flate" /\ call.data # <<>>
     /\ BTypeOf(call.data) # 2) =>
    /\ pd.set => (pd.err # NoErr /\ pd.data.isNil)
    /\ outcome = "returned" => (ret.err # NoErr /\ ret.data.isNil)

\* C18: when the reader goroutine has read the output without error (its
\* data is on resultCh when the select runs), processData returns that data
\* with a nil error, wherever the goroutine is in closing its channels.
C18_SelectReturnsData ==
  [][(pc.main = "select" /\ pc'.main # "select" /\ resultCh.buf # <<>>)
       => pd' = Returned2(resultCh.buf[1], NoErr)]_vars

\* C19: for huffman and lzss what processData returns never comes from a
\* Read that ran before writer.Close: neither the reader's "not closed"
\* error nor the empty result of the closed resultCh.
C19_ReadBeforeClose ==
  (call.Algorithm \in {"huffman", "lzss"} /\ pd.set) =>
    /\ pd.err # notClosed(call.Algorithm, call.op)
    /\ ~(pd.err = NoErr /\ pd.data.isNil)

\* the explicit writer.Close has returned and processData has its result
ClosedOnce == pd.set /\ (pd.err = NoErr \/ pd.err[1] # "failed to write data")

\* C20: once the explicit Close has returned, the deferred second Close
\* neither panics nor crashes the process, and the call returns the data
\* processData had.
C20_SecondClose ==
  (IsValidAlgorithm(call.Algorithm) /\ ClosedOnce) =>
    /\ ~panicking
    /\ outcome \notin {"panicked", "crashed"}
    /\ (outcome = "returned" /\ pd.err = NoErr) => ret.data = pd.data

\* the low nbits bits of a value below 2^31
LowOf(value, nbits) == IF nbits >= 31 THEN value ELSE value % Pow2(nbits)

\* C21: after the writes (value_i, nbits_i) and flushAlign, the reads of
\* nbits_i bits in the same order return the low nbits_i bits of value_i.
C21_BitRoundTrip ==
  Applied("writeCompressedContent") =>
    /\ ret.val.written.st = "ok"
    /\ Len(ret.val.reads) = Len(call.data)
    /\ \A i \in 1..Len(call.data) :
         /\ ret.val.reads[i].e = "ok"
         /\ ret.val.reads[i].v = LowOf(call.data[i][1], call.data[i][2])

\* the first l runes of the pattern stand in the window from index s on
OccursAt(window, pattern, l, s) ==
  /\ s + l <= Len(window)
  /\ \A j \in 1..l : window[s + j] = pattern[j]

\* the starts of the occurrences of the pattern's prefix of length l
Starts(window, pattern, l) ==
  {s \in 0..Len(window) : OccursAt(window, pattern, l, s)}

\* C22: kmp returns the length of the longest prefix of the pattern that
\* occurs wholly inside the window and the start of its earliest occurrence;
\* a reference of length above 1 has NegativeOffset = len(window) - start
\* and Size = that length.
C22_LongestPrefix ==
  Applied("kmp") =>
    LET window == call.data.searchBuffer
        pattern == call.data.pattern
        best == ret.val.m[1]
        start == ret.val.m[2]
    IN /\ best \in 0..Len(pattern)
       /\ Starts(window, pattern, best) # {}
       /\ \A l \in (best + 1)..Len(pattern) : Starts(window, pattern, l) = {}
       /\ best > 0 => /\ start \in Starts(window, pattern, best)
                      /\ \A s \in Starts(window, pattern, best) : start <= s
       /\ ret.val.ref.IsRef <=> best > 1
       /\ best > 1 => /\ ret.val.ref.NegativeOffset = Len(window) - start
                      /\ ret.val.ref.Size = best
                      /\ ret.val.ref.Value = SubSeq(pattern, 1, best)

\* a prefix of two runes or more found twice, after a mismatch that falls
\* back inside the pattern
C22_Witness ==
  /\ Applied("kmp")
  /\ ret.val.ref.IsRef
  /\ ret.val.m[1] = Len(call.data.pattern)
  /\ ret.val.m[2] > 0
  /\ call.data.pattern[1] = call.data.searchBuffer[1]

\* C23: under every completion order of FindMatch's workers no channel ever
\* holds more than one Reference, the consumer has handled the References of
\* the first positions in ascending order, one per position, and when it
\* returns its output is the one of a sequential left-to-right search.
C23_InputOrder ==
  (call.op = "FindMatch" /\ ret # [set |-> FALSE]) =>
    /\ \A n \in 1..Len(ret.refChannels) : Len(ret.refChannels[n]) <= 1
    /\ Len(ret.got) <= Len(refsOf(call.data))
    /\ ret.got = SubSeq(refsOf(call.data), 1, Len(ret.got))
    /\ ret.set =>
         /\ Len(ret.got) = Len(call.data.content)
         /\ consumed(call.data.consumer, ret.got)
              = consumed(call.data.consumer, refsOf(call.data))

\* a later worker that found a match has finished before the second, and
\* the consumer has handled the first position
C23_Witness ==
  /\ call.op = "FindMatch"
  /\ ret # [set |-> FALSE]
  /\ Len(ret.refChannels) >= 6
  /\ Len(ret.got) = 1
  /\ \E k \in 3..Len(ret.refChannels) :
       ret.sent = {1, k} /\ refsOf(call.data)[k].IsRef

\* a Match token within the limits of the format
MatchInRange(t) ==
  /\ t.Length \in 3..258
  /\ t.Distance \in 1..32768
  /\ t.Length <= t.Distance
  /\ lenFindCode(t.Length).st = "ok"
  /\ lenFindCode(t.Length).val[1] \in 257..285
  /\ distFindCode(t.Distance).st = "ok"
  /\ distFindCode(t.Distance).val[1] \in 0..29

\* C24: every Match token tokeniseLZSS makes of an input has a length in
\* 3..258, a distance in 1..32768 and a length no larger than its distance,
\* and the codes Encode gives a Match token lie in 257..285 and 0..29.
C24_MatchTokens ==
  /\ (Applied("tokeniseLZSS") /\ ret.val.tokens.st = "ok") =>
       \A k \in 1..Len(ret.val.tokens.val) :
         ret.val.tokens.val[k].Kind = MatchToken => MatchInRange(ret.val.tokens.val[k])
  /\ Applied("Encode") =>
       /\ ret.val.length.st = "ok" /\ ret.val.length.val[1] \in 257..285
       /\ ret.val.distance.st = "ok" /\ ret.val.distance.val[1] \in 0..29

\* an input whose tokens hold a Match, the references of two runes before it
\* having been written as literals
C24_Witness ==
  /\ Applied("tokeniseLZSS")
  /\ ret.val.tokens.st = "ok"
  /\ \E k \in 1..Len(ret.val.tokens.val) :
       /\ ret.val.tokens.val[k].Kind = MatchToken
       /\ ret.val.tokens.val[k].Length < ret.val.tokens.val[k].Distance
  /\ \E n \in 1..Len(call.data) :
       LET ref == FindMatch(Runes(call.data), maxAllowedBackwardDistance,
                            maxAllowedMatchLength)[n]
       IN ref.IsRef /\ ref.Size = 2

\* a code-length vector that keeps its first `prefix` entries and ends right
\* after its last non-zero entry when that lies further on
EndsAtBoundary(lengths, prefix) ==
  /\ Len(lengths) >= prefix
  /\ Len(lengths) > prefix => lengths[Len(lengths)] # 0

\* C25: for every token stream, with or without a Match token, the encoder
\* has a literal/length vector of 257..286 lengths and a distance vector of
\* 1..30 lengths, each ending at its required prefix or right after its last
\* non-zero entry, so that HLIT and HDIST lie in 0..29.
C25_LengthVectors ==
  (Applied("compress") /\ ret.val.tokens.st = "ok") =>
    /\ ret.val.litLen.st = "ok"
    /\ Len(ret.val.litLen.val) \in 257..286
    /\ EndsAtBoundary(ret.val.litLen.val, 257)
    /\ Len(ret.val.litLen.val) - 257 \in 0..29
    /\ ret.val.dist.st = "ok"
    /\ Len(ret.val.dist.val) \in 1..30
    /\ EndsAtBoundary(ret.val.dist.val, 1)
    /\ Len(ret.val.dist.val) - 1 \in 0..29

\* C26: when the code-length symbols read expand, through a run of code 16,
\* 17 or 18, to more than HLIT + HDIST lengths, ReadCondensedHuffman returns
\* an error.
C26_RunOverflow ==
  (/\ Applied("ReadCondensedHuffman")
   /\ ret.val.expanded.e = "ok"
   /\ Len(ret.val.expanded.v) > call.data.HLIT + call.data.HDIST)
    => ret.val.read.e = "err"

\* the Match token that ends the block reaches before the output produced so
\* far, or is longer than its distance
OutOfRange(tokens) ==
  \/ tokens[Len(tokens)].Distance > Len(tokens) - 1
  \/ tokens[Len(tokens)].Length > tokens[Len(tokens)].Distance

\* C27: decoding a block with a Match token whose distance is larger than
\* the output produced so far, or whose length exceeds its distance, ends
\* with a returned error, and DecodeTokens never crashes.
C27_MatchOutOfRange ==
  Applied("DecodeTokens") =>
    /\ ret.val.decoded.st # "panic"
    /\ OutOfRange(call.data) => ret.val.read.e = "err"

\* C28: for every non-empty map of symbols to frequencies and every order of
\* its freq|symbol pairs in the header, the header parse of decompress
\* returns the same map.
C28_HeaderRoundTrip ==
  Applied("decompress") =>
    /\ ret.val.st = "ok"
    /\ DOMAIN ret.val.val = DOMAIN call.data.symbolFreq
    /\ \A r \in DOMAIN call.data.symbolFreq : ret.val.val[r] = call.data.symbolFreq[r]

\* C29: in plain-Huffman output the byte after the backslash-newline
\* terminator is the number of padding bits, and the payload bytes after it
\* are the code bits, most significant bit first from the first payload byte
\* on, followed by that many zero bits at the end of the last byte.
C29_PaddingAtEnd ==
  Applied("encode") =>
    LET payload == SplitN2(ret.val.out)[2]
        padding == (8 - (Len(ret.val.output) % 8)) % 8
    IN /\ payload # <<>>
       /\ payload[1] = padding
       /\ BitsOfBytes(Tail(payload)) = ret.val.output \o [k \in 1..padding |-> 0]

\* C30: for every split of a GZIP input into successive Write calls, a first
\* chunk shorter than 10 bytes included, the decoder hands the flate writer
\* the input without its first 10 bytes and its Trailer holds the last 8
\* bytes of the input.
C30_SplitWrites ==
  Applied("Write") =>
    /\ ret.val.st = "ok"
    /\ ret.val.core.inputBuffer = SubSeq(GzipInput, 11, GzipLen)
    /\ ret.val.gz.Trailer = SubSeq(GzipInput, GzipLen - 7, GzipLen)

=============================================================================
